---------------------------- MODULE Spec2Model ----------------------------
(***************************************************************************)
(* Job lifecycle and worker pipeline of transcribe-app.                    *)
(*                                                                         *)
(* The producer (backend/api/routes_transcribe.py, _create_job) commits a  *)
(* job record and hands its id to enqueue_transcription; a Celery worker   *)
(* (or, without Celery, the producer itself) runs _run_transcription:      *)
(* _acquire_job, _transcribe, then _mark_job_finished or _mark_job_error   *)
(* (backend/workers/tasks.py).  Every database transaction and every file  *)
(* write of the pipeline is one step, so that runs for the same job id     *)
(* interleave the way separate worker processes do.                        *)
(*                                                                         *)
(* Status values are kept as the code names them.  tasks.py assigns the    *)
(* enum members running, finished and error; db/models.py declares         *)
(* pending, processing, finished and failed.  An assignment of             *)
(* JobStatus.running is modelled as storing the value "running".           *)
(*                                                                         *)
(* The broker is the environment: it delivers a queued message to an idle  *)
(* worker, may deliver a message more than once (at-least-once), and a     *)
(* worker process may die in the middle of a task.  Job ids are always     *)
(* well-formed uuids, so the ValueError return of _run_transcription is    *)
(* never taken; CELERY_EAGER is off.                                       *)
(*                                                                         *)
(* Further specifications share the variables: LiveSpec (fair runs        *)
(* without crashes), RetrySpec (tasks that reach a worker before their     *)
(* record is in the store), FormatSpec (the artifact encoders _to_srt and  *)
(* _to_vtt applied to a segment list, strings computed character by        *)
(* character), TimestampSpec (_format_timestamp), EngineSpec (the backend  *)
(* adapters, ASREngine.transcribe, the plain text and segments.jsonl),     *)
(* UploadSpec (_create_job before its commit, with _persist_upload),       *)
(* OptionsSpec (ASREngine.transcribe called with any TranscriptionOptions),*)
(* ProcessSpec (get_engine over the jobs of one process) and StartupSpec   *)
(* (run_worker.main against a broker that comes and goes).                 *)
(***************************************************************************)
EXTENDS Integers, FiniteSets, Sequences, TLC

VARIABLES
    celery_app,   \* TRUE when create_celery_app() returned an app, FALSE for None
    jobs,         \* the jobs table: id -> record, for the ids that have a row
    prod,         \* per upload request: how far _create_job has got
    queue,        \* task messages the broker holds for delivery
    dups,         \* deliveries the broker has repeated so far
    outages,      \* times the database was unreachable so far
    run,          \* per thread of execution: the _run_transcription in progress
    ended,        \* per task id: how the last run that ended for it ended
    files,        \* per job id: what exists under {storage_dir}/jobs/{id}/
    segments,     \* the segment list handed to the artifact encoders
    srt_text,     \* what _to_srt(segments) returned, None before the call
    vtt_text,     \* what _to_vtt(segments) returned, None before the call
    seconds_arg,  \* the argument of _format_timestamp, in 1/10000 s
    stamp,        \* what _format_timestamp returned for it, None before the call
    backend_segments, \* <<the segments backend.transcribe returned>>
    result,       \* <<what engine.transcribe returned>>, <<>> before
    plain_text,   \* the plain_text _transcribe built from result, None before
    jsonl_file,   \* segments.jsonl: <<its lines>> once written, <<>> before
    backend,      \* the backend load_engine gave the ASREngine
    recognized,   \* <<what the recognizer or the sidecar yields>>
    job_options,  \* the options _create_job stored with the job
    diarized,     \* <<diarized_segments>> once _apply_diarization returned
    raised,       \* the exception engine.transcribe raised
    upload,       \* the upload of the request to _create_job
    destination_exists,\* whether the stored upload file exists
    options,      \* the TranscriptionOptions the engine is called with
    worker_process,  \* one process's _engine and what its jobs were given
    startup,      \* where run_worker.main is and what its attempts did
    broker        \* whether the broker accepts connections

\* The arguments and results of the pure routines and the upload of the
\* request; no step of the producer after its commit, of the broker or of the
\* pipeline changes them.
pure_vars ==
    <<segments, srt_text, vtt_text, seconds_arg, stamp, backend_segments,
      result, plain_text, jsonl_file, backend, recognized, job_options,
      diarized, raised, upload, destination_exists, options,
      worker_process, startup, broker>>

vars == <<celery_app, jobs, prod, queue, dups, outages, run, ended, files,
          pure_vars>>

-----------------------------------------------------------------------------
(* Bounds *)

NumRuns == 2
MaxDuplicates == 1
MaxOutages == 1

Runs == 1..NumRuns

\* The job ids: the uuid4 the producer draws for an upload.
JobIds == {"job-1"}

\* An id no producer ever created a row for (a stray or stale task message).
MissingId == "job-0"

TaskIds == JobIds \cup {MissingId}

-----------------------------------------------------------------------------
(* Values *)

None == "None"

\* db/models.py: the declared members of JobStatus.
JobStatus == {"pending", "processing", "finished", "failed"}

\* The members the code refers to.
JobStatus_pending == "pending"
JobStatus_running == "running"
JobStatus_finished == "finished"
JobStatus_error == "error"

\* @shared_task(max_retries=5)
max_retries == 5

\* Neither @shared_task nor app.conf.update sets acks_late / task_acks_late:
\* Celery's default holds, the message is acknowledged when the worker
\* receives it, before the task body runs.
task_acks_late == FALSE

Sentinel == "(no speech detected or ASR backend returned no segments)"
NotFoundMessage == "Audio file not found: input_path"

Formats == <<"txt", "jsonl", "srt", "vtt">>
FormatFile == [txt |-> "transcript.txt", jsonl |-> "segments.jsonl",
               srt |-> "transcript.srt", vtt |-> "transcript.vtt"]

\* TranscriptionJob(id=..., filename=..., model_size=..., options=...): every
\* nullable column starts NULL, status takes its default.
NewJob ==
    [status |-> JobStatus_pending,
     error |-> None,
     error_message |-> None,
     text |-> None,
     segments |-> <<>>,
     output_txt_path |-> None,
     output_srt_path |-> None,
     output_vtt_path |-> None,
     output_jsonl_path |-> None]

Message(id, retries) == [id |-> id, retries |-> retries]

\* TranscriptionOptions as _transcribe constructs it: model_size and
\* enable_dialect_map are passed, every other field keeps its default.
TranscriptionOptions(model_name, dialect_mapping) ==
    [model_size |-> model_name,
     language_hint |-> None,
     enable_diarization |-> TRUE,
     enable_punct |-> TRUE,
     enable_itn |-> TRUE,
     enable_dialect_map |-> dialect_mapping]

\* The options _transcribe hands to the engine.
WorkerOptions == TranscriptionOptions("small", FALSE)

\* run_worker.main before its first statement.  broker_url: whether
\* CELERY_BROKER_URL is set; celery: whether the celery package, and so
\* celery_app, exists; retry_delay: CELERY_BROKER_RETRY_DELAY in seconds.
\* failed counts the failed connection attempts, connected tells whether one
\* has succeeded, slept is the length of the last sleep.
WorkerStart(broker_url, celery, retry_delay) ==
    [broker_url |-> broker_url,
     celery |-> celery,
     retry_delay |-> retry_delay,
     pc |-> "main",
     failed |-> 0,
     connected |-> FALSE,
     slept |-> 0]

\* A process that has imported workers.tasks: _engine is None (<<>>), and
\* nothing was loaded or returned yet.  asr_backend is the setting, installed
\* tells whether faster_whisper can be imported.
FreshProcess(asr_backend, installed) ==
    [asr_backend |-> asr_backend,
     installed |-> installed,
     _engine |-> <<>>,
     load_engine_calls |-> 0,
     loaded |-> 0,
     jobs |-> 0,
     returned |-> <<>>,
     model_loads |-> <<>>,
     pc |-> "idle"]

\* The upload of a request: the file name and the type it declares, the
\* number of chunks in its body, the chunks _persist_upload has read, where
\* _create_job is and the status code of the HTTPException it raised (0: none).
Upload(filename, content_type, chunks) ==
    [pc |-> "validate", filename |-> filename, content_type |-> content_type,
     chunks |-> chunks, read |-> 0, status_code |-> 0]

\* An upload _create_job has stored: what precedes its commit.
AcceptedUpload ==
    [Upload("clip.wav", "audio/wav", 1) EXCEPT !.pc = "accepted", !.read = 1]

IdleRun ==
    [pc |-> "idle", job |-> MissingId, task |-> FALSE, retries |-> 0,
     unacked |-> FALSE, text |-> None, segs |-> <<>>, err |-> None,
     steps |-> <<>>]

\* The positions of a run between its claim and its terminal write.
Claimed == {"prepare", "transcribe", "write_txt", "write_jsonl", "write_srt",
            "write_vtt", "finish", "error"}

Busy == Claimed \cup {"acquire"}

\* The threads are interchangeable: new work goes to the first idle one.
Free(r) ==
    /\ run[r].pc = "idle"
    /\ \A q \in Runs : q < r => run[q].pc # "idle"

\* No task is queued or in flight for job j and no run is working on it.
Quiescent(j) ==
    /\ \A m \in queue : m.id # j
    /\ \A r \in Runs : run[r].pc \in Busy => run[r].job # j

-----------------------------------------------------------------------------
Init ==
    /\ celery_app \in BOOLEAN
    /\ jobs = [id \in {} |-> NewJob]
    /\ prod = [j \in JobIds |-> "none"]
    /\ queue = {}
    /\ dups = 0
    /\ outages = 0
    /\ run = [r \in Runs |-> IdleRun]
    /\ ended = [id \in TaskIds |-> "none"]
    /\ files = [j \in JobIds |-> {}]
    /\ segments = <<>>
    /\ srt_text = None
    /\ vtt_text = None
    /\ broker = [reachable |-> TRUE, changes |-> 0]
    /\ startup = WorkerStart(TRUE, TRUE, 5)
    /\ worker_process = FreshProcess("auto", FALSE)
    /\ options = WorkerOptions
    /\ destination_exists = TRUE
    /\ upload = AcceptedUpload
    /\ raised = None
    /\ diarized = <<>>
    /\ job_options = [enable_diarization |-> TRUE]
    /\ recognized = <<>>
    /\ backend = "dummy"
    /\ jsonl_file = <<>>
    /\ plain_text = None
    /\ result = <<>>
    /\ backend_segments = <<>>
    /\ stamp = None
    /\ seconds_arg = None

-----------------------------------------------------------------------------
(* The producer: _create_job from the commit on, and enqueue_transcription *)

\* session.add(job); session.commit(); session.refresh(job)
CreateJob(j) ==
    /\ upload.pc = "accepted"
    /\ prod[j] = "none"
    /\ jobs' = jobs @@ (j :> NewJob)
    /\ prod' = [prod EXCEPT ![j] = "committed"]
    /\ UNCHANGED <<pure_vars, celery_app, queue, dups, outages, run, ended,
                   files>>

\* enqueue_transcription without the raise of its except clause: a failed
\* apply_async falls through to the synchronous run.
enqueue_fallthrough(j, sent, r) ==
    /\ prod[j] = "committed"
    /\ IF celery_app /\ sent
         THEN /\ queue' = queue \cup {Message(j, 0)}
              /\ prod' = [prod EXCEPT ![j] = "queued"]
              /\ run' = run
         ELSE /\ Free(r)
              /\ run' = [run EXCEPT ![r] =
                            [IdleRun EXCEPT !.pc = "acquire", !.job = j]]
              /\ prod' = [prod EXCEPT ![j] = "sync"]
              /\ queue' = queue
    /\ UNCHANGED <<pure_vars, celery_app, jobs, dups, outages, ended, files>>

\* enqueue_transcription called without waiting for session.commit().
enqueue_before_commit(j, sent, r) ==
    /\ prod[j] \in {"none", "committed"}
    /\ IF celery_app
         THEN /\ IF sent
                    THEN /\ queue' = queue \cup {Message(j, 0)}
                         /\ prod' = [prod EXCEPT ![j] = "queued"]
                    ELSE /\ queue' = queue
                         /\ prod' = [prod EXCEPT ![j] = "raised"]
              /\ run' = run
         ELSE /\ Free(r)
              /\ run' = [run EXCEPT ![r] =
                            [IdleRun EXCEPT !.pc = "acquire", !.job = j]]
              /\ prod' = [prod EXCEPT ![j] = "sync"]
              /\ queue' = queue
    /\ UNCHANGED <<pure_vars, celery_app, jobs, dups, outages, ended, files>>

\* enqueue_transcription(job_id).  sent: whether apply_async reached the
\* broker.  With celery_app None the job runs in the caller's thread r, with
\* task=None.
enqueue_transcription(j, sent, r) ==
    /\ prod[j] = "committed"
    /\ IF celery_app
         THEN /\ IF sent
                    THEN /\ queue' = queue \cup {Message(j, 0)}
                         /\ prod' = [prod EXCEPT ![j] = "queued"]
                    ELSE /\ queue' = queue
                         /\ prod' = [prod EXCEPT ![j] = "raised"]
              /\ run' = run
         ELSE /\ Free(r)
              /\ run' = [run EXCEPT ![r] =
                            [IdleRun EXCEPT !.pc = "acquire", !.job = j]]
              /\ prod' = [prod EXCEPT ![j] = "sync"]
              /\ queue' = queue
    /\ UNCHANGED <<pure_vars, celery_app, jobs, dups, outages, ended, files>>

-----------------------------------------------------------------------------
(* The broker and the worker's consumer *)

\* A message for an id that has no row: transcribe_audio is a named Celery
\* task, any client of the broker can send it.  Not part of Next: the runs
\* of such a task touch no job record.
EnqueueUnknown ==
    /\ celery_app
    /\ \A m \in queue : m.id # MissingId
    /\ \A r \in Runs : run[r].pc = "idle" \/ run[r].job # MissingId
    /\ queue' = queue \cup {Message(MissingId, 0)}
    /\ UNCHANGED <<pure_vars, celery_app, jobs, prod, dups, outages, run,
                   ended, files>>

\* The task of job j reaches the broker before the store shows the record
\* of j: the worker's session.get returns None until the record appears.
EnqueueEarly(j) ==
    /\ celery_app
    /\ prod[j] = "none"
    /\ j \notin DOMAIN jobs
    /\ ended[j] = "none"
    /\ Quiescent(j)
    /\ queue' = queue \cup {Message(j, 0)}
    /\ UNCHANGED <<pure_vars, celery_app, jobs, prod, dups, outages, run,
                   ended, files>>

StartTask(m) ==
    [IdleRun EXCEPT !.pc = "acquire", !.job = m.id, !.task = TRUE,
                    !.retries = m.retries, !.unacked = task_acks_late]

\* An idle worker receives message m and calls transcribe_audio(self, job_id).
Deliver(r, m) ==
    /\ m \in queue
    /\ Free(r)
    /\ run' = [run EXCEPT ![r] = StartTask(m)]
    /\ queue' = queue \ {m}
    /\ UNCHANGED <<pure_vars, celery_app, jobs, prod, dups, outages, ended,
                   files>>

\* At-least-once delivery: the broker hands out a message and keeps it for
\* another delivery.
Redeliver(r, m) ==
    /\ m \in queue
    /\ Free(r)
    /\ dups < MaxDuplicates
    /\ dups' = dups + 1
    /\ run' = [run EXCEPT ![r] = StartTask(m)]
    /\ UNCHANGED <<pure_vars, celery_app, jobs, prod, queue, outages, ended,
                   files>>

\* The run of thread r returns or raises: the thread is free again, and a
\* message it still held is acknowledged.
EndRun(r, outcome) ==
    /\ run' = [run EXCEPT ![r] = IdleRun]
    /\ ended' = [ended EXCEPT ![run[r].job] = outcome]

\* The worker process dies in the middle of a task.  A message not yet
\* acknowledged goes back to the queue; an acknowledged one is gone.
Crash(r) ==
    /\ run[r].pc \in Busy
    /\ run[r].task
    /\ queue' = IF run[r].unacked
                  THEN queue \cup {Message(run[r].job, run[r].retries)}
                  ELSE queue
    /\ EndRun(r, "crashed")
    /\ UNCHANGED <<pure_vars, celery_app, jobs, prod, dups, outages, files>>

-----------------------------------------------------------------------------
(* _run_transcription *)

\* task.retry with a budget test that lets one more retry through.
RetryOnceMore(r, withExc) ==
    IF run[r].retries <= max_retries
      THEN /\ queue' = queue \cup {Message(run[r].job, run[r].retries + 1)}
           /\ EndRun(r, "retry")
      ELSE /\ queue' = queue
           /\ EndRun(r, IF withExc THEN "raised" ELSE "abandoned")

\* raise task.retry(...) inside try/except task.MaxRetriesExceededError.
\* Within the budget Celery sends the message again with retries + 1 and the
\* Retry exception ends the run.  Past the budget, retry(exc=exc) re-raises
\* exc, and retry() raises MaxRetriesExceededError, which the caller catches
\* to return None.
Retry(r, withExc) ==
    IF run[r].retries < max_retries
      THEN /\ queue' = queue \cup {Message(run[r].job, run[r].retries + 1)}
           /\ EndRun(r, "retry")
      ELSE /\ queue' = queue
           /\ EndRun(r, IF withExc THEN "raised" ELSE "abandoned")

\* _acquire_job treating the record as absent on every retried attempt.
AcquireJobFirstAttemptOnly(r, dbReady) ==
    /\ run[r].pc = "acquire"
    /\ LET id == run[r].job IN
       IF ~dbReady
         THEN /\ outages < MaxOutages
              /\ outages' = outages + 1
              /\ IF run[r].task
                    THEN Retry(r, TRUE)
                    ELSE /\ EndRun(r, "raised")
                         /\ queue' = queue
              /\ jobs' = jobs
         ELSE IF id \notin DOMAIN jobs \/ run[r].retries > 0
           THEN /\ outages' = outages
                /\ IF run[r].task
                      THEN Retry(r, FALSE)
                      ELSE /\ EndRun(r, "abandoned")
                           /\ queue' = queue
                /\ jobs' = jobs
           ELSE /\ jobs' = [jobs EXCEPT ![id] =
                               [@ EXCEPT !.status = JobStatus_running,
                                         !.error_message = None]]
                /\ run' = [run EXCEPT ![r].pc = "prepare",
                                      ![r].steps = Append(@, "claim")]
                /\ ended' = ended
                /\ queue' = queue
                /\ outages' = outages
    /\ UNCHANGED <<pure_vars, celery_app, prod, dups, files>>

\* _acquire_job returning None when session.get raises OperationalError.
AcquireJobSwallowsOutage(r, dbReady) ==
    /\ run[r].pc = "acquire"
    /\ LET id == run[r].job IN
       IF ~dbReady
         THEN /\ outages < MaxOutages
              /\ outages' = outages + 1
              /\ EndRun(r, "abandoned")
              /\ queue' = queue
              /\ jobs' = jobs
         ELSE IF id \notin DOMAIN jobs
           THEN /\ outages' = outages
                /\ IF run[r].task
                      THEN Retry(r, FALSE)
                      ELSE /\ EndRun(r, "abandoned")
                           /\ queue' = queue
                /\ jobs' = jobs
           ELSE /\ jobs' = [jobs EXCEPT ![id] =
                               [@ EXCEPT !.status = JobStatus_running,
                                         !.error_message = None]]
                /\ run' = [run EXCEPT ![r].pc = "prepare",
                                      ![r].steps = Append(@, "claim")]
                /\ ended' = ended
                /\ queue' = queue
                /\ outages' = outages
    /\ UNCHANGED <<pure_vars, celery_app, prod, dups, files>>

\* _acquire_job.  dbReady: whether session.get reached the database (FALSE:
\* OperationalError).  One transaction: session.get, the assignments, commit.
AcquireJob(r, dbReady) ==
    /\ run[r].pc = "acquire"
    /\ LET id == run[r].job IN
       IF ~dbReady
         THEN /\ outages < MaxOutages
              /\ outages' = outages + 1
              /\ IF run[r].task
                    THEN Retry(r, TRUE)
                    ELSE /\ EndRun(r, "raised")
                         /\ queue' = queue
              /\ jobs' = jobs
         ELSE IF id \notin DOMAIN jobs
           THEN /\ outages' = outages
                /\ IF run[r].task
                      THEN Retry(r, FALSE)
                      ELSE /\ EndRun(r, "abandoned")
                           /\ queue' = queue
                /\ jobs' = jobs
           ELSE /\ jobs' = [jobs EXCEPT ![id] =
                               [@ EXCEPT !.status = JobStatus_running,
                                         !.error_message = None]]
                /\ run' = [run EXCEPT ![r].pc = "prepare",
                                      ![r].steps = Append(@, "claim")]
                /\ ended' = ended
                /\ queue' = queue
                /\ outages' = outages
    /\ UNCHANGED <<pure_vars, celery_app, prod, dups, files>>

\* An exception of _transcribe: caught in _run_transcription, which goes on
\* to _mark_job_error(job_uuid, str(exc)).
Raise(r, message) == [run EXCEPT ![r].pc = "error", ![r].err = message]

\* _transcribe up to _copy_transcript_sidecar: the input must exist, the job
\* directory is made, the audio is converted (or copied) into it.
PrepareAudio(r, exists, converted) ==
    /\ run[r].pc = "prepare"
    /\ LET id == run[r].job IN
       IF ~exists
         THEN /\ run' = Raise(r, NotFoundMessage)
              /\ files' = files
         ELSE IF ~converted
           THEN /\ run' = Raise(r, "ffmpeg failed: stderr")
                /\ files' = [files EXCEPT ![id] = @ \cup {"dir"}]
           ELSE /\ run' = [run EXCEPT ![r].pc = "transcribe",
                                      ![r].steps = Append(@, "prepare")]
                /\ files' = [files EXCEPT ![id] = @ \cup {"dir", "audio.wav"}]
    /\ UNCHANGED <<pure_vars, celery_app, jobs, prod, queue, dups, outages,
                   ended>>

\* What engine.transcribe can do: return segments with some text, return
\* nothing usable (the sentinel replaces it), or raise, with or without a
\* message.
EngineOutcomes ==
    {[ok |-> TRUE, value |-> "hello\nworld",
      segments |-> <<[start |-> 0, end |-> 15000, text |-> "hello"],
                     [start |-> 15000, end |-> 30000, text |-> "world"]>>],
     [ok |-> TRUE, value |-> Sentinel, segments |-> <<>>],
     [ok |-> FALSE, value |-> "backend error", segments |-> <<>>],
     [ok |-> FALSE, value |-> "", segments |-> <<>>]}

\* engine.transcribe(prepared_audio, options) and the building of plain_text.
Transcribe(r, out) ==
    /\ run[r].pc = "transcribe"
    /\ run' = IF out.ok
                THEN [run EXCEPT ![r].pc = "write_txt", ![r].text = out.value,
                                 ![r].segs = out.segments,
                                 ![r].steps = Append(@, "transcribe")]
                ELSE Raise(r, out.value)
    /\ UNCHANGED <<pure_vars, celery_app, jobs, prod, queue, dups, outages,
                   ended, files>>

\* The order of the writes without the one of transcript.vtt.
AfterWriteSkipsVtt(fmt) ==
    CASE fmt = "txt" -> "write_jsonl"
      [] fmt = "jsonl" -> "write_srt"
      [] fmt = "srt" -> "finish"
      [] fmt = "vtt" -> "finish"

AfterWrite(fmt) ==
    CASE fmt = "txt" -> "write_jsonl"
      [] fmt = "jsonl" -> "write_srt"
      [] fmt = "srt" -> "write_vtt"
      [] fmt = "vtt" -> "finish"

\* One of the four writes of _transcribe, in the order of the code: txt,
\* jsonl, srt, vtt.  A write that raises ends _transcribe.
WriteArtifact(r, fmt, written) ==
    /\ run[r].pc = "write_" \o fmt
    /\ IF written
         THEN /\ files' = [files EXCEPT ![run[r].job] = @ \cup {FormatFile[fmt]}]
              /\ run' = [run EXCEPT ![r].pc = AfterWrite(fmt),
                                    ![r].steps = Append(@, "write_" \o fmt)]
         ELSE /\ files' = files
              /\ run' = Raise(r, "write failed")
    /\ UNCHANGED <<pure_vars, celery_app, jobs, prod, queue, dups, outages,
                   ended>>

PathOf(id, fmt) == <<"jobs", id, FormatFile[fmt]>>

\* _mark_job_finished without the assignment of job.output_srt_path.
MarkJobFinishedNoSrt(r) ==
    /\ run[r].pc = "finish"
    /\ LET id == run[r].job IN
       jobs' = IF id \notin DOMAIN jobs
                 THEN jobs
                 ELSE [jobs EXCEPT ![id] =
                         [@ EXCEPT !.status = JobStatus_finished,
                                   !.text = run[r].text,
                                   !.output_txt_path = PathOf(id, "txt"),
                                   !.output_vtt_path = PathOf(id, "vtt"),
                                   !.output_jsonl_path = PathOf(id, "jsonl"),
                                   !.error_message = None]]
    /\ EndRun(r, "finished")
    /\ UNCHANGED <<pure_vars, celery_app, prod, queue, dups, outages, files>>

\* _mark_job_finished without the assignment job.text = text_value.
MarkJobFinishedNoText(r) ==
    /\ run[r].pc = "finish"
    /\ LET id == run[r].job IN
       jobs' = IF id \notin DOMAIN jobs
                 THEN jobs
                 ELSE [jobs EXCEPT ![id] =
                         [@ EXCEPT !.status = JobStatus_finished,
                                   !.output_txt_path = PathOf(id, "txt"),
                                   !.output_srt_path = PathOf(id, "srt"),
                                   !.output_vtt_path = PathOf(id, "vtt"),
                                   !.output_jsonl_path = PathOf(id, "jsonl"),
                                   !.error_message = None]]
    /\ EndRun(r, "finished")
    /\ UNCHANGED <<pure_vars, celery_app, prod, queue, dups, outages, files>>

\* _mark_job_finished(job_uuid, result_payload).  payload["text"] is the
\* plain_text of _transcribe, never blank, so the re-read of transcript.txt
\* is not taken.
MarkJobFinished(r) ==
    /\ run[r].pc = "finish"
    /\ LET id == run[r].job IN
       jobs' = IF id \notin DOMAIN jobs
                 THEN jobs
                 ELSE [jobs EXCEPT ![id] =
                         [@ EXCEPT !.status = JobStatus_finished,
                                   !.text = run[r].text,
                                   !.output_txt_path = PathOf(id, "txt"),
                                   !.output_srt_path = PathOf(id, "srt"),
                                   !.output_vtt_path = PathOf(id, "vtt"),
                                   !.output_jsonl_path = PathOf(id, "jsonl"),
                                   !.error_message = None]]
    /\ EndRun(r, "finished")
    /\ UNCHANGED <<pure_vars, celery_app, prod, queue, dups, outages, files>>

\* _run_transcription asking for a retry of the task where it calls
\* _mark_job_error.
MarkJobErrorRetries(r) ==
    /\ run[r].pc = "error"
    /\ jobs' = jobs
    /\ IF run[r].task
         THEN Retry(r, TRUE)
         ELSE /\ EndRun(r, "raised")
              /\ queue' = queue
    /\ UNCHANGED <<pure_vars, celery_app, prod, dups, outages, files>>

\* _mark_job_error(job_uuid, str(exc))
MarkJobError(r) ==
    /\ run[r].pc = "error"
    /\ LET id == run[r].job IN
       jobs' = IF id \notin DOMAIN jobs
                 THEN jobs
                 ELSE [jobs EXCEPT ![id] =
                         [@ EXCEPT !.status = JobStatus_error,
                                   !.error_message =
                                       IF run[r].err = "" THEN "Unknown error"
                                                          ELSE run[r].err]]
    /\ EndRun(r, "errored")
    /\ UNCHANGED <<pure_vars, celery_app, prod, queue, dups, outages, files>>

-----------------------------------------------------------------------------
Next ==
    \/ \E j \in JobIds : CreateJob(j)
    \/ \E j \in JobIds, sent \in BOOLEAN, r \in Runs : enqueue_transcription(j, sent, r)
    \/ \E r \in Runs, m \in queue : Deliver(r, m)
    \/ \E r \in Runs, m \in queue : Redeliver(r, m)
    \/ \E r \in Runs : Crash(r)
    \/ \E r \in Runs, dbReady \in BOOLEAN : AcquireJob(r, dbReady)
    \/ \E r \in Runs, exists \in BOOLEAN, converted \in BOOLEAN :
          PrepareAudio(r, exists, converted)
    \/ \E r \in Runs, out \in EngineOutcomes : Transcribe(r, out)
    \/ \E r \in Runs, i \in 1..4, written \in BOOLEAN :
          WriteArtifact(r, Formats[i], written)
    \/ \E r \in Runs : MarkJobFinished(r)
    \/ \E r \in Runs : MarkJobError(r)

Spec == Init /\ [][Next]_vars

\* The runs of a deployment whose workers do not crash and whose database
\* stays reachable, under fair scheduling of the broker and of every worker.
LiveNext ==
    \/ \E j \in JobIds : CreateJob(j)
    \/ \E j \in JobIds, sent \in BOOLEAN, r \in Runs : enqueue_transcription(j, sent, r)
    \/ \E r \in Runs, m \in queue : Deliver(r, m)
    \/ \E r \in Runs, m \in queue : Redeliver(r, m)
    \/ \E r \in Runs : AcquireJob(r, TRUE)
    \/ \E r \in Runs, exists \in BOOLEAN, converted \in BOOLEAN :
          PrepareAudio(r, exists, converted)
    \/ \E r \in Runs, out \in EngineOutcomes : Transcribe(r, out)
    \/ \E r \in Runs, i \in 1..4, written \in BOOLEAN :
          WriteArtifact(r, Formats[i], written)
    \/ \E r \in Runs : MarkJobFinished(r)
    \/ \E r \in Runs : MarkJobError(r)

LiveSpec ==
    /\ Init
    /\ [][LiveNext]_vars
    /\ WF_vars(\E r \in Runs, m \in queue : Deliver(r, m))
    /\ \A r \in Runs :
          /\ WF_vars(AcquireJob(r, TRUE))
          /\ WF_vars(\E exists \in BOOLEAN, converted \in BOOLEAN :
                        PrepareAudio(r, exists, converted))
          /\ WF_vars(\E out \in EngineOutcomes : Transcribe(r, out))
          /\ WF_vars(\E i \in 1..4, written \in BOOLEAN :
                        WriteArtifact(r, Formats[i], written))
          /\ WF_vars(MarkJobFinished(r))
          /\ WF_vars(MarkJobError(r))

\* The runs of tasks that reach a worker before their record is in the
\* store, or that name an id no record exists for: the retry chain of the
\* acquire step, without duplicate deliveries, crashes or database outages.
\* The broker is fair to every task: a message that stays queued is delivered.
RetryNext ==
    \/ EnqueueUnknown
    \/ \E j \in JobIds : EnqueueEarly(j)
    \/ \E j \in JobIds : CreateJob(j)
    \/ \E r \in Runs, m \in queue : Deliver(r, m)
    \/ \E r \in Runs : AcquireJob(r, TRUE)
    \/ \E r \in Runs, exists \in BOOLEAN, converted \in BOOLEAN :
          PrepareAudio(r, exists, converted)
    \/ \E r \in Runs, out \in EngineOutcomes : Transcribe(r, out)
    \/ \E r \in Runs, i \in 1..4, written \in BOOLEAN :
          WriteArtifact(r, Formats[i], written)
    \/ \E r \in Runs : MarkJobFinished(r)
    \/ \E r \in Runs : MarkJobError(r)

RetrySpec ==
    /\ Init
    /\ [][RetryNext]_vars
    /\ \A id \in TaskIds :
          WF_vars(\E r \in Runs, m \in queue : m.id = id /\ Deliver(r, m))
    /\ \A r \in Runs :
          /\ WF_vars(AcquireJob(r, TRUE))
          /\ WF_vars(\E exists \in BOOLEAN, converted \in BOOLEAN :
                        PrepareAudio(r, exists, converted))
          /\ WF_vars(\E out \in EngineOutcomes : Transcribe(r, out))
          /\ WF_vars(\E i \in 1..4, written \in BOOLEAN :
                        WriteArtifact(r, Formats[i], written))
          /\ WF_vars(MarkJobFinished(r))
          /\ WF_vars(MarkJobError(r))

-----------------------------------------------------------------------------
(* Properties *)

Status(j) == jobs[j].status

\* The runs that hold job j between their claim and their terminal write.
Holders(j) == {r \in Runs : run[r].pc \in Claimed /\ run[r].job = j}

\* Some task message for id is queued, or delivered and not acknowledged.
TaskPending(id) ==
    \/ \E m \in queue : m.id = id
    \/ \E r \in Runs : run[r].pc \in Busy /\ run[r].job = id /\ run[r].unacked

\* C1: an acquire step claims a job (its run goes on to _transcribe) only
\* when the job is pending or failed; with the job already processing the
\* attempt is a no-op.  The failed status is read as either name, failed or
\* the code's error.
C1_ExclusiveClaim ==
    [][\A r \in Runs :
          (run[r].pc = "acquire" /\ run'[r].pc = "prepare")
              => Status(run[r].job) \in {"pending", "failed", JobStatus_error}]_vars

\* C2: once a job's status is finished, no step changes it.
C2_FinishedIsTerminal ==
    [][\A j \in DOMAIN jobs :
          Status(j) = "finished" => jobs'[j].status = "finished"]_vars

\* C3: no two runs are between claim and terminal write for the same job id
\* at the same time.
C3_OneRunPerJob ==
    \A j \in JobIds : Cardinality(Holders(j)) <= 1

\* The transitions of the state machine, with processing and failed read as
\* either the declared name or the member the code writes.
ProcessingNames == {"processing", JobStatus_running}
FailedNames == {"failed", JobStatus_error}
Transitions ==
    ({"pending"} \X ProcessingNames) \cup (FailedNames \X ProcessingNames)
    \cup (ProcessingNames \X {"finished"}) \cup (ProcessingNames \X FailedNames)

\* C4: every status change is pending->processing, failed->processing,
\* processing->finished or processing->failed.
C4_OnlyStateMachineTransitions ==
    [][\A j \in DOMAIN jobs :
          jobs'[j].status # Status(j)
              => <<Status(j), jobs'[j].status>> \in Transitions]_vars

\* C5: a finished job has a text and registered txt and jsonl paths.
C5_FinishedHasTextAndArtifacts ==
    \A j \in DOMAIN jobs :
        Status(j) = "finished"
            => /\ jobs[j].text # None
               /\ jobs[j].output_txt_path # None
               /\ jobs[j].output_jsonl_path # None

C5_Witness ==
    \E j \in DOMAIN jobs : Status(j) = "finished" /\ ended[j] = "finished"

\* C6: error_message is non-null exactly when the status is failed.
C6_ErrorMessageIffFailed ==
    \A j \in DOMAIN jobs : (jobs[j].error_message # None) <=> (Status(j) = "failed")

\* The pairing the code keeps: error_message is non-null exactly when the
\* status is the member the failure path writes.
ErrorMessageIffError ==
    \A j \in DOMAIN jobs :
        (jobs[j].error_message # None) <=> (Status(j) = JobStatus_error)

\* C7: the status of every job record is one of pending, processing,
\* finished, failed.
C7_StatusInEnum ==
    \A j \in DOMAIN jobs : Status(j) \in JobStatus

\* C8: a job that was created and enqueued reaches finished or failed: once
\* its task has run to the end, that is its status.
C8_EnqueuedJobTerminates ==
    \A j \in DOMAIN jobs :
        (prod[j] = "queued" /\ Quiescent(j)) => Status(j) \in {"finished", "failed"}

\* With the member the failure path writes in place of failed, every enqueued
\* job does reach a terminal status.
EnqueuedJobEnds ==
    \A j \in JobIds :
        (prod[j] = "queued")
            ~> (j \in DOMAIN jobs /\ Status(j) \in {"finished", JobStatus_error})

\* C9: a task is acknowledged only after its run has completed, so a job a
\* crashed worker left in processing still has a task that will be delivered.
C9_LateAck ==
    /\ \A r \in Runs : (run[r].task /\ run[r].pc \in Busy) => run[r].unacked
    /\ \A j \in DOMAIN jobs :
          (Status(j) \in ProcessingNames /\ Holders(j) = {}) => TaskPending(j)

\* C10: with a Celery app configured, an enqueue that did not reach the
\* broker raises to its caller; it starts no synchronous run and does not
\* return normally.
C10_EnqueueFailurePropagates ==
    [][\A j \in JobIds :
          (celery_app /\ prod[j] = "committed" /\ prod'[j] # "committed"
              /\ Message(j, 0) \notin queue')
              => (prod'[j] = "raised" /\ run' = run /\ jobs' = jobs)]_vars

C10_Witness ==
    \E j \in DOMAIN jobs : celery_app /\ prod[j] = "raised" /\ Status(j) = "pending"

\* C11: a job whose enqueue failed after its record was committed is not left
\* pending with no task: the producer has marked it failed.
C11_FailedEnqueueMarksFailed ==
    \A j \in DOMAIN jobs :
        (prod[j] = "raised" /\ Quiescent(j)) => Status(j) \in FailedNames

\* A run at its acquire step whose job id has no record in the store.
AcquiresAbsent(r) == run[r].pc = "acquire" /\ run[r].job \notin DOMAIN jobs

\* C12: a task whose record is absent is attempted at most 1 + max_retries
\* times: an attempt within the budget sends one retry, the attempt that
\* exhausts it ends the task without raising and without a retry, and no
\* attempt creates or modifies a job record.
C12_AbsentJobBoundedRetries ==
    /\ [](/\ \A m \in queue : m.retries <= max_retries
          /\ \A r \in Runs : run[r].retries <= max_retries
          /\ ended[MissingId] # "raised"
          /\ MissingId \notin DOMAIN jobs)
    /\ [][\A r \in Runs :
             (AcquiresAbsent(r) /\ run'[r] # run[r])
                 => /\ jobs' = jobs
                    /\ IF run[r].retries < max_retries
                         THEN /\ ended'[run[r].job] = "retry"
                              /\ queue' = queue \cup
                                    {Message(run[r].job, run[r].retries + 1)}
                         ELSE /\ ended'[run[r].job] = "abandoned"
                              /\ queue' = queue]_vars

C12_Witness ==
    /\ ended[MissingId] = "abandoned"
    /\ \A m \in queue : m.id # MissingId
    /\ \A r \in Runs : run[r].pc = "idle"

\* The statuses after which a run is over: finished, and failed under either
\* the declared name or the member the failure path writes.
Terminal == {"finished"} \cup FailedNames

ReturnsFromError(r) ==
    /\ run[r].pc = "error"
    /\ run'[r].pc = "idle"
    /\ ended'[run[r].job] # "crashed"

\* C14: an exception raised after the claim is caught in _run_transcription:
\* the run returns without raising and leaves the job in status failed with
\* a non-empty error_message.
C14_ExceptionFailsJob ==
    [][\A r \in Runs :
          ReturnsFromError(r)
              => /\ ended'[run[r].job] = "errored"
                 /\ jobs'[run[r].job].status = "failed"
                 /\ jobs'[run[r].job].error_message \notin {None, ""}]_vars

\* What the code does with the exception: the same, with the status member
\* the failure path writes.
ExceptionMarksError ==
    [][\A r \in Runs :
          ReturnsFromError(r)
              => /\ ended'[run[r].job] = "errored"
                 /\ jobs'[run[r].job].status = JobStatus_error
                 /\ jobs'[run[r].job].error_message \notin {None, ""}]_vars

\* sub in s, for strings.
Contains(s, sub) ==
    \E i \in 1..(Len(s) - Len(sub) + 1) : SubSeq(s, i, i + Len(sub) - 1) = sub

\* The run of thread r found no input file: from the failed existence test
\* to the return of _run_transcription.
MissingInputRaised(r) ==
    run[r].pc = "prepare" /\ run'[r].pc = "error" /\ run'[r].err = NotFoundMessage

MissingInputReturns(r) == ReturnsFromError(r) /\ run[r].err = NotFoundMessage

\* C15: when the input file of a claimed job does not exist, the run ends
\* with the job in status failed and an error_message containing "not found",
\* and neither makes the job directory nor writes an artifact.
C15_MissingInputFailsJob ==
    [][\A r \in Runs :
          /\ MissingInputRaised(r) => files' = files
          /\ MissingInputReturns(r)
                => /\ files' = files
                   /\ jobs'[run[r].job].status = "failed"
                   /\ Contains(jobs'[run[r].job].error_message, "not found")]_vars

\* What the code does for a missing input: the same, with the status member
\* the failure path writes.
MissingInputMarksError ==
    [][\A r \in Runs :
          /\ MissingInputRaised(r) => files' = files
          /\ MissingInputReturns(r)
                => /\ files' = files
                   /\ jobs'[run[r].job].status = JobStatus_error
                   /\ Contains(jobs'[run[r].job].error_message, "not found")]_vars

\* The path registered on job record rec for format fmt, None when there is
\* none: the column output_{fmt}_path.
RegisteredPath(rec, fmt) ==
    CASE fmt = "txt" -> rec.output_txt_path
      [] fmt = "jsonl" -> rec.output_jsonl_path
      [] fmt = "srt" -> rec.output_srt_path
      [] fmt = "vtt" -> rec.output_vtt_path

\* The registrations of record rec, as (format, path) entries.
Registered(rec) ==
    {<<Formats[i], RegisteredPath(rec, Formats[i])>> :
        i \in {k \in 1..4 : RegisteredPath(rec, Formats[k]) # None}}

OnePerFormat(rec) ==
    \A i \in 1..4 :
        Cardinality({e \in Registered(rec) : e[1] = Formats[i]}) = 1

\* C16: however often a job is processed, a registration leaves exactly one
\* path per format txt, jsonl, srt, vtt; registering over earlier entries
\* replaces them.
C16_OneRegistrationPerFormat ==
    [][\A r \in Runs :
          (run[r].pc = "finish" /\ run'[r].pc = "idle"
               /\ ended'[run[r].job] = "finished")
              => /\ OnePerFormat(jobs'[run[r].job])
                 /\ Cardinality(Registered(jobs'[run[r].job])) = 4
                 /\ Registered(jobs[run[r].job]) # {}
                       => Registered(jobs'[run[r].job])
                              = {<<Formats[i], PathOf(run[r].job, Formats[i])>> :
                                    i \in 1..4}]_vars

\* A run is about to register its artifacts on a job that an earlier run
\* finished and registered, and that was claimed again since.
C16_Witness ==
    \E r \in Runs :
        /\ run[r].pc = "finish"
        /\ run[r].job \in DOMAIN jobs
        /\ Cardinality(Registered(jobs[run[r].job])) = 4
        /\ Holders(run[r].job) = {r}

\* C17: a run that reaches the persist step attempts all four writes: after
\* the write of txt, jsonl or srt, whether it succeeded or failed, the run
\* goes on to the write of the next format (unless its worker dies).
C17_EveryFormatAttempted ==
    [][\A r \in Runs, i \in 1..3 :
          (run[r].pc = "write_" \o Formats[i] /\ run'[r].pc # run[r].pc
               /\ run'[r].pc # "idle")
              => run'[r].pc = "write_" \o Formats[i + 1]]_vars

\* C18: once txt and jsonl are written, a failing write of srt or vtt does
\* not fail the job: no run goes from the srt or the vtt write to the
\* failure path.
C18_OptionalFormatsDoNotFailJob ==
    [][\A r \in Runs :
          run[r].pc \in {"write_srt", "write_vtt"} => run'[r].pc # "error"]_vars

-----------------------------------------------------------------------------
(* The artifact encoders: _format_timestamp, _to_srt, _to_vtt *)

MaxSegments == 2

\* A float number of seconds is carried as a whole number of ten-thousandths
\* of a second, one digit finer than the milliseconds that are printed.
TicksPerSecond == 10000

RECURSIVE Join(_, _)
\* sep.join(lines)
Join(lines, sep) ==
    IF lines = <<>> THEN ""
    ELSE IF Len(lines) = 1 THEN lines[1]
    ELSE lines[1] \o sep \o Join(Tail(lines), sep)

RECURSIVE Replace(_, _, _)
\* s.replace(old, new) for one-character old and new
Replace(s, old, new) ==
    IF Len(s) = 0 THEN ""
    ELSE (IF SubSeq(s, 1, 1) = old THEN new ELSE SubSeq(s, 1, 1))
             \o Replace(SubSeq(s, 2, Len(s)), old, new)

IsSpace(c) == c \in {" ", "\n", "\t", "\r"}

RECURSIVE LStrip(_)
LStrip(s) ==
    IF Len(s) > 0 /\ IsSpace(SubSeq(s, 1, 1))
      THEN LStrip(SubSeq(s, 2, Len(s)))
      ELSE s

RECURSIVE RStrip(_)
RStrip(s) ==
    IF Len(s) > 0 /\ IsSpace(SubSeq(s, Len(s), Len(s)))
      THEN RStrip(SubSeq(s, 1, Len(s) - 1))
      ELSE s

\* s.strip()
Strip(s) == LStrip(RStrip(s))

\* f"{n:02d}"
Pad2(n) == IF n < 10 THEN "0" \o ToString(n) ELSE ToString(n)

\* The three decimals of f"{x:.3f}"
Pad3(n) ==
    IF n < 10 THEN "00" \o ToString(n)
    ELSE IF n < 100 THEN "0" \o ToString(n)
    ELSE ToString(n)

\* f"{secs:06.3f}": secs rounded to the nearest thousandth, at least two
\* digits before the point.
FormatSecs(ticks) ==
    LET millis == (ticks + 5) \div 10
    IN  Pad2(millis \div 1000) \o "." \o Pad3(millis % 1000)

\* _format_timestamp with the minutes taken from the whole value instead of
\* from its remainder within the hour.
format_timestamp_whole_minutes(seconds) ==
    LET hours == seconds \div (3600 * TicksPerSecond)
        minutes == seconds \div (60 * TicksPerSecond)
        secs == seconds % (60 * TicksPerSecond)
    IN  Replace(Pad2(hours) \o ":" \o Pad2(minutes) \o ":" \o FormatSecs(secs),
                ".", ",")

\* _format_timestamp(seconds)
format_timestamp(seconds) ==
    LET hours == seconds \div (3600 * TicksPerSecond)
        minutes == (seconds % (3600 * TicksPerSecond)) \div (60 * TicksPerSecond)
        secs == seconds % (60 * TicksPerSecond)
    IN  Replace(Pad2(hours) \o ":" \o Pad2(minutes) \o ":" \o FormatSecs(secs),
                ".", ",")

\* f"{segment.speaker}: " if segment.speaker else ""
speaker_prefix(segment) ==
    IF segment.speaker \in {None, ""} THEN "" ELSE segment.speaker \o ": "

RECURSIVE SrtLines(_, _)
\* The lines _to_srt appends for the segments from position index on.
SrtLines(segs, index) ==
    IF segs = <<>> THEN <<>>
    ELSE <<ToString(index),
           format_timestamp(Head(segs).start) \o " --> "
               \o format_timestamp(Head(segs).end),
           speaker_prefix(Head(segs)) \o Head(segs).text,
           "">> \o SrtLines(Tail(segs), index + 1)

\* _to_srt(segments)
to_srt(segs) == Strip(Join(SrtLines(segs, 1), "\n"))

RECURSIVE VttLines(_)
\* The lines _to_vtt appends after the header for the segments.
VttLines(segs) ==
    IF segs = <<>> THEN <<>>
    ELSE <<Replace(format_timestamp(Head(segs).start), ",", ".") \o " --> "
               \o Replace(format_timestamp(Head(segs).end), ",", "."),
           speaker_prefix(Head(segs)) \o Head(segs).text,
           "">> \o VttLines(Tail(segs))

\* _to_vtt(segments)
to_vtt(segs) == Strip(Join(<<"WEBVTT", "">> \o VttLines(segs), "\n"))

Segment(start, end, text, speaker) ==
    [start |-> start, end |-> end, text |-> text, speaker |-> speaker]

\* The segments the encoders are given: the two of the documented scenario,
\* one past the hour with a speaker, one whose end rounds up to a whole
\* minute, one with an empty speaker and a text that ends in a blank.
SegmentValues ==
    {Segment(0, 15000, "hello", None),
     Segment(15000, 30000, "world", None),
     Segment(36615000, 36630004, "sawasdee", "SPEAKER_00"),
     Segment(300000, 599996, "krub", "SPEAKER_01"),
     Segment(30000, 45000, "ja ", "")}

SegmentLists ==
    UNION {[1..n -> SegmentValues] : n \in 0..MaxSegments}

FormatInit ==
    /\ segments \in SegmentLists
    /\ srt_text = None
    /\ vtt_text = None
    /\ broker = [reachable |-> TRUE, changes |-> 0]
    /\ startup = WorkerStart(TRUE, TRUE, 5)
    /\ worker_process = FreshProcess("auto", FALSE)
    /\ options = WorkerOptions
    /\ destination_exists = TRUE
    /\ upload = AcceptedUpload
    /\ raised = None
    /\ diarized = <<>>
    /\ job_options = [enable_diarization |-> TRUE]
    /\ recognized = <<>>
    /\ backend = "dummy"
    /\ jsonl_file = <<>>
    /\ plain_text = None
    /\ result = <<>>
    /\ backend_segments = <<>>
    /\ stamp = None
    /\ seconds_arg = None
    /\ celery_app = FALSE
    /\ jobs = [id \in {} |-> NewJob]
    /\ prod = [j \in JobIds |-> "none"]
    /\ queue = {}
    /\ dups = 0
    /\ outages = 0
    /\ run = [r \in Runs |-> IdleRun]
    /\ ended = [id \in TaskIds |-> "none"]
    /\ files = [j \in JobIds |-> {}]

\* srt_path.write_text(_to_srt(segments))
ToSrt ==
    /\ srt_text = None
    /\ srt_text' = to_srt(segments)
    /\ UNCHANGED <<broker, startup, worker_process, options,
                   destination_exists, upload, raised, diarized, job_options,
                   recognized, backend, jsonl_file, plain_text, result,
                   backend_segments, stamp, seconds_arg, segments, vtt_text,
                   celery_app, jobs, prod, queue, dups, outages, run, ended,
                   files>>

\* vtt_path.write_text(_to_vtt(segments))
ToVtt ==
    /\ vtt_text = None
    /\ vtt_text' = to_vtt(segments)
    /\ UNCHANGED <<broker, startup, worker_process, options,
                   destination_exists, upload, raised, diarized, job_options,
                   recognized, backend, jsonl_file, plain_text, result,
                   backend_segments, stamp, seconds_arg, segments, srt_text,
                   celery_app, jobs, prod, queue, dups, outages, run, ended,
                   files>>

FormatNext == ToSrt \/ ToVtt

FormatSpec == FormatInit /\ [][FormatNext]_vars

-----------------------------------------------------------------------------
(* Properties of the artifact encoders *)

\* The timestamp as the formats specify it: zero-padded HH:MM:SS, then the
\* separator sep, then the milliseconds, of a value given in milliseconds.
Stamp(millis, sep) ==
    Pad2(millis \div 3600000) \o ":" \o Pad2((millis % 3600000) \div 60000)
        \o ":" \o Pad2((millis % 60000) \div 1000) \o sep \o Pad3(millis % 1000)

Millis(seconds) == (seconds + 5) \div 10

\* "{start} --> {end}\n{speaker_prefix}{text}\n\n"
CueBlock(segment, sep) ==
    Stamp(Millis(segment.start), sep) \o " --> " \o Stamp(Millis(segment.end), sep)
        \o "\n" \o speaker_prefix(segment) \o segment.text \o "\n\n"

RECURSIVE SrtBlocks(_, _)
\* The 1-indexed SRT blocks of the segments from position index on.
SrtBlocks(segs, index) ==
    IF segs = <<>> THEN ""
    ELSE ToString(index) \o "\n" \o CueBlock(Head(segs), ",")
             \o SrtBlocks(Tail(segs), index + 1)

RECURSIVE VttBlocks(_)
VttBlocks(segs) ==
    IF segs = <<>> THEN "" ELSE CueBlock(Head(segs), ".") \o VttBlocks(Tail(segs))

\* s, or s without its last character when that is a newline.
UpToFinalNewline(s) ==
    {s} \cup (IF Len(s) > 0 /\ SubSeq(s, Len(s), Len(s)) = "\n"
                THEN {SubSeq(s, 1, Len(s) - 1)} ELSE {})

ScenarioSegments ==
    <<Segment(0, 15000, "hello", None), Segment(15000, 30000, "world", None)>>

ScenarioSrt ==
    "1\n00:00:00,000 --> 00:00:01,500\nhello\n\n2\n00:00:01,500 --> 00:00:03,000\nworld\n"

\* C19: _to_srt returns the 1-indexed blocks
\* "{index}\n{start} --> {end}\n{speaker_prefix}{text}\n\n" in segment order
\* (the blank line after the last block may be left out, as in the scenario),
\* and for the two segments of the scenario exactly the documented text.
C19_SrtIsBlocks ==
    srt_text # None
        => /\ srt_text \in UpToFinalNewline(SrtBlocks(segments, 1))
           /\ segments = ScenarioSegments => srt_text = ScenarioSrt

\* C20: _to_vtt returns the line WEBVTT and a blank line, then for every
\* segment in order its SRT block without the index line and with a dot
\* before the milliseconds (the blank line after the last block may be left
\* out); for no segments the line WEBVTT is still ended and followed by a
\* blank line.
C20_VttIsHeaderAndBlocks ==
    vtt_text # None
        => /\ \E body \in UpToFinalNewline(VttBlocks(segments)) :
                 vtt_text \in UpToFinalNewline("WEBVTT\n\n" \o body)
           /\ Len(vtt_text) >= 7 /\ SubSeq(vtt_text, 1, 7) = "WEBVTT\n"

-----------------------------------------------------------------------------
(* _format_timestamp on its own *)

MaxHours == 2

\* The pipeline at rest, for the specifications of the pure routines.
PipelineAtRest ==
    /\ celery_app = FALSE
    /\ jobs = [id \in {} |-> NewJob]
    /\ prod = [j \in JobIds |-> "none"]
    /\ queue = {}
    /\ dups = 0
    /\ outages = 0
    /\ run = [r \in Runs |-> IdleRun]
    /\ ended = [id \in TaskIds |-> "none"]
    /\ files = [j \in JobIds |-> {}]

\* Seconds within a minute, as ticks: whole and half seconds, values just
\* under and just over a millisecond, values that round up to the next second
\* and to the next minute.
SecondTicks == {0, 4, 6, 15000, 15004, 99996, 590000, 599994, 599996}

\* The values _format_timestamp is given: up to MaxHours hours and a value of
\* fifty hours, at the start, the second and the last minute of the hour.
TimestampInputs ==
    {h * 3600 * TicksPerSecond + m * 60 * TicksPerSecond + f :
        h \in (0..MaxHours) \cup {50}, m \in {0, 1, 59}, f \in SecondTicks}

TimestampInit ==
    /\ seconds_arg \in TimestampInputs
    /\ stamp = None
    /\ segments = <<>>
    /\ srt_text = None
    /\ vtt_text = None
    /\ broker = [reachable |-> TRUE, changes |-> 0]
    /\ startup = WorkerStart(TRUE, TRUE, 5)
    /\ worker_process = FreshProcess("auto", FALSE)
    /\ options = WorkerOptions
    /\ destination_exists = TRUE
    /\ upload = AcceptedUpload
    /\ raised = None
    /\ diarized = <<>>
    /\ job_options = [enable_diarization |-> TRUE]
    /\ recognized = <<>>
    /\ backend = "dummy"
    /\ jsonl_file = <<>>
    /\ plain_text = None
    /\ result = <<>>
    /\ backend_segments = <<>>
    /\ PipelineAtRest

\* start = _format_timestamp(segment.start)
FormatTimestamp ==
    /\ stamp = None
    /\ stamp' = format_timestamp(seconds_arg)
    /\ UNCHANGED <<broker, startup, worker_process, options,
                   destination_exists, upload, raised, diarized, job_options,
                   recognized, backend, jsonl_file, plain_text, result,
                   backend_segments, seconds_arg, segments, srt_text,
                   vtt_text, celery_app, jobs, prod, queue, dups, outages,
                   run, ended, files>>

TimestampNext == FormatTimestamp

TimestampSpec == TimestampInit /\ [][TimestampNext]_vars

\* The value of a decimal digit.
DigitValue(c) == CHOOSE d \in 0..9 : ToString(d) = c

RECURSIVE ParseNat(_)
\* int(s) for a string of decimal digits
ParseNat(s) ==
    IF Len(s) = 0 THEN 0
    ELSE 10 * ParseNat(SubSeq(s, 1, Len(s) - 1))
             + DigitValue(SubSeq(s, Len(s), Len(s)))

RECURSIVE SplitAt(_, _)
\* s.split(sep) for a one-character sep
SplitAt(s, sep) ==
    IF \A i \in 1..Len(s) : SubSeq(s, i, i) # sep THEN <<s>>
    ELSE LET i == CHOOSE k \in 1..Len(s) :
                      /\ SubSeq(s, k, k) = sep
                      /\ \A q \in 1..(k - 1) : SubSeq(s, q, q) # sep
         IN  <<SubSeq(s, 1, i - 1)>> \o SplitAt(SubSeq(s, i + 1, Len(s)), sep)

\* The reverse of the formatter, in milliseconds: HH:MM:SS,mmm read as
\* hours*3600 + minutes*60 + seconds + millis/1000.
ParseTimestamp(s) ==
    LET fields == SplitAt(s, ":")
        last == SplitAt(fields[3], ",")
    IN  ParseNat(fields[1]) * 3600000 + ParseNat(fields[2]) * 60000
            + ParseNat(last[1]) * 1000 + ParseNat(last[2])

\* C21: the string _format_timestamp returns, parsed back, is within one
\* millisecond (ten ticks) of the value it was given.
C21_TimestampRoundTrip ==
    stamp # None
        => /\ Len(SplitAt(stamp, ":")) = 3
           /\ Len(SplitAt(SplitAt(stamp, ":")[3], ",")) = 2
           /\ 10 * ParseTimestamp(stamp) - seconds_arg <= 10
           /\ seconds_arg - 10 * ParseTimestamp(stamp) <= 10

\* A value past the hour whose seconds round up has been formatted.
C21_Witness ==
    /\ seconds_arg = 3600 * TicksPerSecond + 599996
    /\ stamp = "01:00:60,000"

-----------------------------------------------------------------------------
(* ASREngine.transcribe and the texts _transcribe derives from its result *)

\* Segment(start, end, text, confidence, speaker, language) as a backend
\* builds it.
BackendSegment(start, end, text, confidence, speaker, language) ==
    [start |-> start, end |-> end, text |-> text, confidence |-> confidence,
     speaker |-> speaker, language |-> language]

LowerOf ==
    [A |-> "a", B |-> "b", C |-> "c", D |-> "d", E |-> "e", F |-> "f",
     G |-> "g", H |-> "h", I |-> "i", J |-> "j", K |-> "k", L |-> "l",
     M |-> "m", N |-> "n", O |-> "o", P |-> "p", Q |-> "q", R |-> "r",
     S |-> "s", T |-> "t", U |-> "u", V |-> "v", W |-> "w", X |-> "x",
     Y |-> "y", Z |-> "z"]

RECURSIVE Lower(_)
\* s.lower()
Lower(s) ==
    IF Len(s) = 0 THEN ""
    ELSE (IF SubSeq(s, 1, 1) \in DOMAIN LowerOf
            THEN LowerOf[SubSeq(s, 1, 1)] ELSE SubSeq(s, 1, 1))
             \o Lower(SubSeq(s, 2, Len(s)))

\* re.search(r"[a-z]", s)
HasLowerLetter(s) ==
    \E i \in 1..Len(s) : \E k \in DOMAIN LowerOf : SubSeq(s, i, i) = LowerOf[k]

RECURSIVE CollapseSpace(_)
\* re.sub(r"\s+", " ", s)
CollapseSpace(s) ==
    IF Len(s) = 0 THEN ""
    ELSE IF IsSpace(SubSeq(s, 1, 1))
      THEN " " \o CollapseSpace(LStrip(s))
      ELSE SubSeq(s, 1, 1) \o CollapseSpace(SubSeq(s, 2, Len(s)))

\* LanguageIdentifier.detect(text, hint), without a fasttext model.  The
\* texts contain none of the Lao marker words.
detect(text, hint) ==
    IF hint \notin {None, ""} THEN hint
    ELSE IF Strip(Lower(text)) = "" THEN "th"
    ELSE IF HasLowerLetter(Strip(Lower(text))) THEN "en"
    ELSE "th"

\* Thai script is written here in ASCII, one sign for a word, with signs
\* that are no letter a-z, no digit, no whitespace and none of . , : ! ? so
\* that every pattern of the code treats them as it treats the Thai words.
\* The sign of the currency, U+0E3F
baht_sign == "$"
\* The word "baht" of _normalize_currency
baht == "&"
\* THAI_ONES[5], "ha"
ha == "#"
\* The Isan word "het" of DEFAULT_MAPPING and the word "tham" it maps to
het == "^"
tham == "*"

Min(a, b) == IF a < b THEN a ELSE b

Max(a, b) == IF a > b THEN a ELSE b

IsDigit(c) == c \in {"0", "1", "2", "3", "4", "5", "6", "7", "8", "9"}

RECURSIVE DigitRun(_)
\* The length of the run of digits a string begins with: \d*
DigitRun(s) ==
    IF Len(s) > 0 /\ IsDigit(SubSeq(s, 1, 1))
      THEN 1 + DigitRun(SubSeq(s, 2, Len(s))) ELSE 0

\* The length of the match of \d+[.,]?\d* at the start of s, 0 without one.
AmountRun(s) ==
    LET d == DigitRun(s)
        sep == IF d > 0 /\ Len(s) > d /\ SubSeq(s, d + 1, d + 1) \in {".", ","}
                 THEN 1 ELSE 0
    IN  IF d = 0 THEN 0
        ELSE d + sep + DigitRun(SubSeq(s, d + sep + 1, Len(s)))

RECURSIVE normalize_currency(_)
\* _normalize_currency(text): an amount, at most one whitespace and the word
\* or the sign of the currency become the amount and the word.
normalize_currency(text) ==
    IF Len(text) = 0 THEN ""
    ELSE LET n == AmountRun(text)
             after == SubSeq(text, n + 1, Len(text))
             gap == IF Len(after) > 0 /\ IsSpace(SubSeq(after, 1, 1))
                      THEN 1 ELSE 0
             unit == IF Len(after) > gap
                       THEN SubSeq(after, gap + 1, gap + 1) ELSE ""
         IN  IF n > 0 /\ unit \in {baht, baht_sign}
               THEN SubSeq(text, 1, n) \o baht
                      \o normalize_currency(SubSeq(after, gap + 2, Len(after)))
               ELSE SubSeq(text, 1, 1)
                      \o normalize_currency(SubSeq(text, 2, Len(text)))

\* inverse_text_normalize(text, language).  The texts hold no time of day
\* (digits, a colon or full stop, two digits), which _normalize_time needs.
inverse_text_normalize(text, language) ==
    IF text = "" THEN text
    ELSE IF SubSeq(language, 1, 2) = "th" THEN normalize_currency(text)
    ELSE text

\* THAI_ONES, for the digits the texts hold.
THAI_ONES == [n \in {5} |-> ha]

\* _number_to_words(number) below ten: _two_digit gives THAI_ONES[number].
number_to_words(number) == THAI_ONES[number]

RECURSIVE number_words(_)
\* re.sub(r"(\d{1,3})", lambda m: _number_to_words(int(m.group(1))), s)
number_words(s) ==
    IF Len(s) = 0 THEN ""
    ELSE LET n == Min(DigitRun(s), 3)
         IN  IF n > 0
               THEN number_to_words(ParseNat(SubSeq(s, 1, n)))
                      \o number_words(SubSeq(s, n + 1, Len(s)))
               ELSE SubSeq(s, 1, 1) \o number_words(SubSeq(s, 2, Len(s)))

\* normalize_text(text, language): whitespace runs become one blank, the ends
\* are stripped; in Thai text the numbers become number words.  The texts
\* hold no time of day.
normalize_text(text, language) ==
    LET normalized == Strip(CollapseSpace(text))
    IN  IF normalized = "" THEN normalized
        ELSE IF SubSeq(language, 1, 2) = "th" THEN number_words(normalized)
        ELSE normalized

LastChar(s) == SubSeq(s, Len(s), Len(s))

\* restore_punctuation(text, language).  English gets a final full stop; for
\* the other languages the sentences, split at whitespace after . ! ?, are
\* stripped and joined by one blank.
restore_punctuation(text, language) ==
    IF text = "" THEN text
    ELSE IF SubSeq(language, 1, 2) = "en"
      THEN (IF Strip(text) # "" /\ LastChar(Strip(text)) \notin {".", "!", "?"}
              THEN Strip(text) \o "." ELSE Strip(text))
      ELSE Strip(CollapseSpace(text))

\* _post_process_segment that applies the inverse text normalization whatever
\* enable_itn says.
post_process_segment_always_itn(segment, opts) ==
    LET language == IF segment.language \notin {None, ""}
                      THEN segment.language
                      ELSE detect(segment.text, opts.language_hint)
        t1 == inverse_text_normalize(segment.text, language)
        t2 == normalize_text(t1, language)
        t3 == IF opts.enable_punct
                THEN restore_punctuation(t2, language) ELSE t2
    IN  [segment EXCEPT !.text = t3, !.language = language]

\* ASREngine._post_process_segment(segment, options)
post_process_segment(segment, opts) ==
    LET language == IF segment.language \notin {None, ""}
                      THEN segment.language
                      ELSE detect(segment.text, opts.language_hint)
        t1 == IF opts.enable_itn
                THEN inverse_text_normalize(segment.text, language)
                ELSE segment.text
        t2 == normalize_text(t1, language)
        t3 == IF opts.enable_punct
                THEN restore_punctuation(t2, language) ELSE t2
    IN  [segment EXCEPT !.text = t3, !.language = language]

\* assign_speakers that counts the segments from one.
assign_speakers_from_one(segs) ==
    [i \in 1..Len(segs) |-> "SPEAKER_" \o Pad2(i)]

\* f"SPEAKER_{index:02d}" for every segment: Diarizer.assign_speakers
assign_speakers(segs) == [i \in 1..Len(segs) |-> "SPEAKER_" \o Pad2(i - 1)]

\* ASREngine._apply_diarization(segments, audio_path, options)
apply_diarization(segs, opts) ==
    IF ~opts.enable_diarization THEN segs
    ELSE [i \in 1..Len(segs) |->
             [segs[i] EXCEPT !.speaker = assign_speakers(segs)[i]]]

\* The texts of a segment list that satisfy keep, each passed through f.
RECURSIVE StrippedTexts(_, _)
StrippedTexts(segs, truthy) ==
    IF segs = <<>> THEN <<>>
    ELSE (IF (IF truthy THEN Head(segs).text # ""
                        ELSE Strip(Head(segs).text) # "")
            THEN <<Strip(Head(segs).text)>> ELSE <<>>)
             \o StrippedTexts(Tail(segs), truthy)

RECURSIVE Words(_)
\* s.split(): the maximal runs without whitespace
Words(s) ==
    LET t == LStrip(s)
    IN  IF t = "" THEN <<>>
        ELSE LET n == CHOOSE k \in 1..Len(t) :
                          /\ \A q \in 1..k : ~IsSpace(SubSeq(t, q, q))
                          /\ k = Len(t) \/ IsSpace(SubSeq(t, k + 1, k + 1))
             IN  <<SubSeq(t, 1, n)>> \o Words(SubSeq(t, n + 1, Len(t)))

\* DEFAULT_MAPPING, for the dialect words the texts hold.
DEFAULT_MAPPING == [isan |-> (het :> tham)]

\* DialectMapper.map_text(text) without custom tables and without a region:
\* every token found in a table is replaced, the tokens are joined by a blank.
map_text(text) ==
    LET tokens == Words(text)
        mapped(token) ==
            IF \E region \in DOMAIN DEFAULT_MAPPING :
                   token \in DOMAIN DEFAULT_MAPPING[region]
              THEN LET region == CHOOSE g \in DOMAIN DEFAULT_MAPPING :
                                     token \in DOMAIN DEFAULT_MAPPING[g]
                   IN  DEFAULT_MAPPING[region][token]
              ELSE token
    IN  Join([i \in 1..Len(tokens) |-> mapped(tokens[i])], " ")

\* transcribe with a dialect mapper that rewrites the transcript itself.
transcription_result_mapped_in_place(diarized_segments, opts) ==
    LET processed == [i \in 1..Len(diarized_segments) |->
                         post_process_segment(diarized_segments[i], opts)]
        full_text == Strip(Join(StrippedTexts(processed, TRUE), " "))
    IN  [text |-> IF opts.enable_dialect_map
                    THEN map_text(full_text) ELSE full_text,
         segments |-> processed,
         dialect_mapped_text |-> IF opts.enable_dialect_map
                                   THEN map_text(full_text) ELSE None]

\* ASREngine.transcribe from the diarized segments on: the processed
\* segments, the full text and the dialect text.
transcription_result(diarized_segments, opts) ==
    LET processed == [i \in 1..Len(diarized_segments) |->
                         post_process_segment(diarized_segments[i], opts)]
        full_text == Strip(Join(StrippedTexts(processed, TRUE), " "))
    IN  [text |-> full_text,
         segments |-> processed,
         dialect_mapped_text |-> IF opts.enable_dialect_map
                                   THEN map_text(full_text) ELSE None]

Placeholders == {"audio.", "audio", "file", "sound"}

\* plain_text with the texts joined by a blank instead of a newline.
build_plain_text_blank_joined(res) ==
    LET joined == Strip(Join(StrippedTexts(res.segments, FALSE), " "))
        candidate == Strip(res.text)
    IN  IF joined = ""
          THEN (IF candidate # "" /\ Len(candidate) >= 8
                     /\ Lower(candidate) \notin Placeholders
                  THEN candidate ELSE Sentinel)
          ELSE joined

\* _transcribe: the building of plain_text from result
build_plain_text(res) ==
    LET joined == Strip(Join(StrippedTexts(res.segments, FALSE), "\n"))
        candidate == Strip(res.text)
    IN  IF joined = ""
          THEN (IF candidate # "" /\ Len(candidate) >= 8
                     /\ Lower(candidate) \notin Placeholders
                  THEN candidate ELSE Sentinel)
          ELSE joined

MaxRecognized == 3

Backends == {"dummy", "faster_whisper"}

\* What a sidecar transcript can hold for a segment: texts with and without
\* surrounding or repeated whitespace, empty and blank texts, with and
\* without a language or a speaker, and any number as "confidence".
SidecarValues ==
    {BackendSegment(0, 15000, "hello", 9000, None, None),
     BackendSegment(15000, 30000, " Sawasdee  krub ", 5000, "Somchai", "th"),
     BackendSegment(30000, 45000, "", 0, None, None),
     BackendSegment(45000, 60000, "  ", 10000, None, "th"),
     BackendSegment(0, 50000, "audio", 15000, None, None)}

\* What the faster-whisper generator can yield: start, end, text and
\* avg_logprob (in nats, as confidence).
WhisperValues ==
    {BackendSegment(0, 15000, " hello ", -1, None, None),
     BackendSegment(15000, 30000, "", -1000, None, None),
     BackendSegment(30000, 45000, "krub", 0, None, None),
     BackendSegment(45000, 60000, "world", 1, None, None),
     BackendSegment(0, 50000, "loud", 1000, None, None)}

ListsOf(values) == UNION {[1..n -> values] : n \in 0..MaxRecognized}

\* math.exp(x), in ten-thousandths; it underflows to 0.0 below -745.
exp(x) ==
    CASE x < -745 -> 0
      [] x = -1 -> 3679
      [] x = 0 -> TicksPerSecond
      [] x = 1 -> 27183

\* math.exp raises OverflowError above 709.78.
exp_overflows(x) == x > 709

\* info.language of the faster-whisper model
detected_language == "th"

\* DummyWhisperBackend.transcribe(audio_path, options): the segments of the
\* sidecar transcript as they are, or one segment made of the file's stem.
dummy_transcribe(sidecar) ==
    IF sidecar = <<>>
      THEN <<BackendSegment(0, 50000, "audio", 5000, None, None)>>
      ELSE sidecar[1]

\* FasterWhisperBackend.transcribe(audio_path, options), when math.exp
\* raises for none of the segments.
whisper_transcribe(generator) ==
    LET segs == [i \in 1..Len(generator) |->
                    BackendSegment(generator[i].start, generator[i].end,
                                   Strip(generator[i].text),
                                   Max(0, Min(TicksPerSecond,
                                              exp(generator[i].confidence))),
                                   None, detected_language)]
    IN  IF segs = <<>> THEN <<BackendSegment(0, 0, "", 0, None, None)>>
        ELSE segs

EngineInit ==
    /\ backend \in Backends
    /\ recognized \in
          IF backend = "dummy"
            THEN {<<>>} \cup {<<l>> : l \in ListsOf(SidecarValues)}
            ELSE {<<l>> : l \in ListsOf(WhisperValues)}
    /\ job_options \in [enable_diarization : BOOLEAN]
    /\ backend_segments = <<>>
    /\ diarized = <<>>
    /\ result = <<>>
    /\ raised = None
    /\ plain_text = None
    /\ jsonl_file = <<>>
    /\ seconds_arg = None
    /\ stamp = None
    /\ segments = <<>>
    /\ srt_text = None
    /\ vtt_text = None
    /\ broker = [reachable |-> TRUE, changes |-> 0]
    /\ startup = WorkerStart(TRUE, TRUE, 5)
    /\ worker_process = FreshProcess("auto", FALSE)
    /\ options = WorkerOptions
    /\ destination_exists = TRUE
    /\ upload = AcceptedUpload
    /\ PipelineAtRest

\* segments = self.backend.transcribe(audio_path, options)
BackendTranscribe ==
    /\ backend_segments = <<>>
    /\ raised = None
    /\ IF backend = "faster_whisper"
            /\ \E i \in 1..Len(recognized[1]) :
                   exp_overflows(recognized[1][i].confidence)
         THEN /\ raised' = "OverflowError"
              /\ UNCHANGED backend_segments
         ELSE /\ backend_segments' =
                     <<IF backend = "dummy"
                         THEN dummy_transcribe(recognized)
                         ELSE whisper_transcribe(recognized[1])>>
              /\ UNCHANGED raised
    /\ UNCHANGED <<broker, startup, worker_process, options,
                   destination_exists, upload, backend, recognized,
                   job_options, diarized, result, plain_text, jsonl_file,
                   seconds_arg, stamp, segments, srt_text, vtt_text,
                   celery_app, jobs, prod, queue, dups, outages, run, ended,
                   files>>

\* diarized_segments = self._apply_diarization(segments, audio_path, options)
ApplyDiarization ==
    /\ backend_segments # <<>>
    /\ diarized = <<>>
    /\ diarized' = <<apply_diarization(backend_segments[1], options)>>
    /\ UNCHANGED <<broker, startup, worker_process, options,
                   destination_exists, upload, backend, recognized,
                   job_options, backend_segments, result, raised, plain_text,
                   jsonl_file, seconds_arg, stamp, segments, srt_text,
                   vtt_text, celery_app, jobs, prod, queue, dups, outages,
                   run, ended, files>>

\* The rest of engine.transcribe: result = engine.transcribe(prepared_audio,
\* options)
EngineTranscribe ==
    /\ diarized # <<>>
    /\ result = <<>>
    /\ result' = <<transcription_result(diarized[1], options)>>
    /\ UNCHANGED <<broker, startup, worker_process, options,
                   destination_exists, upload, backend, recognized,
                   job_options, backend_segments, diarized, raised,
                   plain_text, jsonl_file, seconds_arg, stamp, segments,
                   srt_text, vtt_text, celery_app, jobs, prod, queue, dups,
                   outages, run, ended, files>>

\* The building of plain_text in _transcribe
BuildPlainText ==
    /\ result # <<>>
    /\ plain_text = None
    /\ plain_text' = build_plain_text(result[1])
    /\ UNCHANGED <<broker, startup, worker_process, options,
                   destination_exists, upload, backend, recognized,
                   job_options, backend_segments, diarized, result, raised,
                   jsonl_file, seconds_arg, stamp, segments, srt_text,
                   vtt_text, celery_app, jobs, prod, queue, dups, outages,
                   run, ended, files>>

\* The JSON object _write_segments dumps for a segment, as its ordered
\* key/value pairs.
SegmentPayload(segment) ==
    <<<<"start", segment.start>>, <<"end", segment.end>>,
      <<"text", segment.text>>, <<"confidence", segment.confidence>>,
      <<"speaker", segment.speaker>>, <<"language", segment.language>>>>

\* _write_segments that leaves out the segments without text.
write_segments_with_text_only(segs) ==
    LET kept == SelectSeq(segs, LAMBDA sg : sg.text # "")
    IN  [i \in 1..Len(kept) |-> SegmentPayload(kept[i])]

\* _write_segments(path, segments): the lines written, one json.dumps each.
write_segments(segs) == [i \in 1..Len(segs) |-> SegmentPayload(segs[i])]

\* _write_segments(jsonl_path, result.segments or [])
WriteSegments ==
    /\ result # <<>>
    /\ jsonl_file = <<>>
    /\ jsonl_file' = <<write_segments(result[1].segments)>>
    /\ UNCHANGED <<broker, startup, worker_process, options,
                   destination_exists, upload, backend, recognized,
                   job_options, backend_segments, diarized, result, raised,
                   plain_text, seconds_arg, stamp, segments, srt_text,
                   vtt_text, celery_app, jobs, prod, queue, dups, outages,
                   run, ended, files>>

EngineNext ==
    \/ BackendTranscribe
    \/ ApplyDiarization
    \/ EngineTranscribe
    \/ BuildPlainText
    \/ WriteSegments

EngineSpec == EngineInit /\ [][EngineNext]_vars

\* The engine called as a library, with any options.
MaxProcessed == 2

\* Texts on which the post-processing steps can be told apart: an English
\* and a Thai text without a language, a Thai amount with a language of its
\* own, and a text that only the normalization changes.
PostprocessValues ==
    {BackendSegment(0, 15000, "hello world", 9000, None, None),
     BackendSegment(15000, 30000, het \o " 5 " \o baht_sign, 9000, None, None),
     BackendSegment(30000, 45000, "5  " \o baht, 9000, None, "th"),
     BackendSegment(45000, 60000, " ok  ok ", 9000, None, "en")}

AllOptions ==
    [model_size : {"small"},
     language_hint : {None, "en", "th"},
     enable_diarization : BOOLEAN,
     enable_punct : BOOLEAN,
     enable_itn : BOOLEAN,
     enable_dialect_map : BOOLEAN]

OptionsInit ==
    /\ backend = "dummy"
    /\ recognized \in
          {<<l>> : l \in UNION {[1..n -> PostprocessValues] :
                                    n \in 1..MaxProcessed}}
    /\ options \in AllOptions
    /\ job_options = [enable_diarization |-> TRUE]
    /\ backend_segments = <<>>
    /\ diarized = <<>>
    /\ result = <<>>
    /\ raised = None
    /\ plain_text = None
    /\ jsonl_file = <<>>
    /\ seconds_arg = None
    /\ stamp = None
    /\ segments = <<>>
    /\ srt_text = None
    /\ vtt_text = None
    /\ broker = [reachable |-> TRUE, changes |-> 0]
    /\ startup = WorkerStart(TRUE, TRUE, 5)
    /\ worker_process = FreshProcess("auto", FALSE)
    /\ destination_exists = TRUE
    /\ upload = AcceptedUpload
    /\ PipelineAtRest

OptionsSpec == OptionsInit /\ [][EngineNext]_vars

RECURSIVE NonEmptyTexts(_)
\* The segment texts that are not empty, in order.
NonEmptyTexts(segs) ==
    IF segs = <<>> THEN <<>>
    ELSE (IF Head(segs).text # "" THEN <<Head(segs).text>> ELSE <<>>)
             \o NonEmptyTexts(Tail(segs))

\* C22: the plain text is the non-empty texts of the result's segments joined
\* by newlines in their order, and the sentinel when there is none.
C22_PlainTextIsJoinedTexts ==
    plain_text # None
        => plain_text = IF NonEmptyTexts(result[1].segments) = <<>>
                          THEN Sentinel
                          ELSE Join(NonEmptyTexts(result[1].segments), "\n")

\* The texts of two segments were joined.
C22_Witness ==
    /\ plain_text # None
    /\ Len(result[1].segments) = 2
    /\ Len(NonEmptyTexts(result[1].segments)) = 2
    /\ plain_text = "Sawasdee krub\nhello."

\* Every segment text is empty or blank: the sentinel.
C22_SentinelWitness ==
    /\ plain_text = Sentinel
    /\ Len(result[1].segments) = 2

\* The value line holds for key.
Field(line, key) ==
    LET i == CHOOSE k \in 1..Len(line) : line[k][1] = key IN line[i][2]

JsonlFields == <<"start", "end", "text", "confidence", "speaker", "language">>

\* C23: segments.jsonl has one object per segment of the result, in order,
\* with exactly the fields start, end, text, confidence, speaker, language of
\* that segment; with no segments the file is written with no lines.
C23_JsonlOneObjectPerSegment ==
    jsonl_file # <<>>
        => LET lines == jsonl_file[1]
               segs == result[1].segments
           IN  /\ Len(lines) = Len(segs)
               /\ \A i \in 1..Len(lines) :
                     /\ [k \in 1..Len(lines[i]) |-> lines[i][k][1]] = JsonlFields
                     /\ Field(lines[i], "start") = segs[i].start
                     /\ Field(lines[i], "end") = segs[i].end
                     /\ Field(lines[i], "text") = segs[i].text
                     /\ Field(lines[i], "confidence") = segs[i].confidence
                     /\ Field(lines[i], "speaker") = segs[i].speaker
                     /\ Field(lines[i], "language") = segs[i].language

\* The file was written for a result of two segments, one without text.
C23_Witness ==
    /\ jsonl_file # <<>>
    /\ Len(jsonl_file[1]) = 2
    /\ Field(jsonl_file[1][2], "text") = ""

\* The file was written, empty, for a result without segments.
C23_EmptyWitness ==
    /\ result # <<>>
    /\ result[1].segments = <<>>
    /\ jsonl_file = <<<<>>>>

\* The recognizer, or the sidecar transcript, yields no segment.
NoSpeech == recognized = <<<<>>>>

\* C24: when the recognizer yields zero segments, with either backend, the
\* engine raises nothing, the plain text is empty or the sentinel and
\* segments.jsonl is written without a line.
C24_NoSpeechFinishesEmpty ==
    NoSpeech
        => /\ raised = None
           /\ plain_text # None => plain_text \in {"", Sentinel}
           /\ jsonl_file # <<>> => jsonl_file[1] = <<>>

\* What holds of it with both backends: nothing is raised and the text is the
\* sentinel.
NoSpeechTextIsSentinel ==
    NoSpeech
        => /\ raised = None
           /\ plain_text # None => plain_text = Sentinel

\* What holds of it with the dummy backend: segments.jsonl has no line.
DummyNoSpeechJsonlEmpty ==
    (NoSpeech /\ backend = "dummy" /\ jsonl_file # <<>>) => jsonl_file[1] = <<>>

\* The label of the i-th segment, counted from zero.
SpeakerLabel(i) == "SPEAKER_" \o (IF i < 10 THEN "0" ELSE "") \o ToString(i)

\* C25: with diarization enabled the i-th segment, counted from zero, gets
\* the speaker label SPEAKER_ii (two digits, zero padded), and it has the
\* label before its text is post-processed: the diarized segments carry the
\* labels and still the backend's texts, and the result keeps the labels.
C25_SpeakerLabelsInOrder ==
    WorkerOptions.enable_diarization
        => /\ diarized # <<>>
                => /\ Len(diarized[1]) = Len(backend_segments[1])
                   /\ \A i \in 1..Len(diarized[1]) :
                         /\ diarized[1][i].speaker = SpeakerLabel(i - 1)
                         /\ diarized[1][i].text = backend_segments[1][i].text
           /\ result # <<>>
                => /\ diarized # <<>>
                   /\ Len(result[1].segments) = Len(diarized[1])
                   /\ \A i \in 1..Len(result[1].segments) :
                         result[1].segments[i].speaker = SpeakerLabel(i - 1)

\* A result of three segments, the second of which the sidecar attributed to
\* somebody and whose text post-processing changed, was labelled.
C25_Witness ==
    /\ result # <<>>
    /\ Len(result[1].segments) = 3
    /\ backend_segments[1][2].speaker = "Somchai"
    /\ result[1].segments[2].text # backend_segments[1][2].text
    /\ [i \in 1..3 |-> result[1].segments[i].speaker]
           = <<"SPEAKER_00", "SPEAKER_01", "SPEAKER_02">>

\* C26: for a job submitted with enable_diarization = false no segment of
\* the result, and no line of segments.jsonl, carries a speaker label.
C26_NoLabelsWithoutDiarization ==
    ~job_options.enable_diarization
        => /\ result # <<>>
                => \A i \in 1..Len(result[1].segments) :
                       result[1].segments[i].speaker = None
           /\ jsonl_file # <<>>
                => \A i \in 1..Len(jsonl_file[1]) :
                       Field(jsonl_file[1][i], "speaker") = None

\* C28: whatever score the backend got, from faster-whisper or from a
\* sidecar transcript, the confidence of the segment it returns is in
\* [0.0, 1.0].
C28_ConfidenceInUnitRange ==
    backend_segments # <<>>
        => \A i \in 1..Len(backend_segments[1]) :
               /\ backend_segments[1][i].confidence >= 0
               /\ backend_segments[1][i].confidence <= TicksPerSecond

\* What holds of it: the confidence the faster-whisper backend returns.
WhisperConfidenceInUnitRange ==
    (backend = "faster_whisper" /\ backend_segments # <<>>)
        => \A i \in 1..Len(backend_segments[1]) :
               /\ backend_segments[1][i].confidence >= 0
               /\ backend_segments[1][i].confidence <= TicksPerSecond

\* get_job_status(job_id, session): the status and the error of the response
\* for a job that exists.
get_job_status(job_id) ==
    [job_id |-> job_id,
     status |-> jobs[job_id].status,
     progress |-> IF jobs[job_id].status = JobStatus_finished THEN 1 ELSE 0,
     error |-> jobs[job_id].error]

\* C27: for a job whose status is the failure status, get_job_status reports
\* a non-null error, the message _mark_job_error recorded; for a job in any
\* other status it reports none.  The failure status is taken under either
\* of its names.
C27_StatusQueryReportsError ==
    \A j \in DOMAIN jobs :
        IF Status(j) \in FailedNames
          THEN /\ get_job_status(j).error # None
               /\ get_job_status(j).error = jobs[j].error_message
          ELSE get_job_status(j).error = None

\* What holds of it: the status query never reports an error.
StatusQueryReportsNoError ==
    \A j \in DOMAIN jobs : get_job_status(j).error = None

-----------------------------------------------------------------------------
(* The upload: _create_job before its commit, and _persist_upload *)

\* settings.max_upload_mb; _persist_upload reads chunks of one MiB.
MaxUploadChunks == 2

Filenames == {"", "clip.wav", "notes.txt", "clip.xyz"}

ContentTypes == {"", "audio/wav", "text/plain"}

\* mimetypes.guess_type(filename)[0]
guess_type(filename) ==
    CASE filename = "clip.wav" -> "audio/x-wav"
      [] filename = "notes.txt" -> "text/plain"
      [] OTHER -> None

\* content_type or mimetypes.guess_type(file.filename or "")[0]
detected_type(u) ==
    IF u.content_type # "" THEN u.content_type ELSE guess_type(u.filename)

\* detected_type.startswith("audio/")
IsAudio(type) == Len(type) >= 6 /\ SubSeq(type, 1, 6) = "audio/"

Reject(u, code) == [u EXCEPT !.pc = "rejected", !.status_code = code]

UploadInit ==
    /\ upload \in {Upload(f, t, n) : f \in Filenames, t \in ContentTypes,
                                    n \in 0..(MaxUploadChunks + 1)}
    /\ destination_exists = FALSE
    /\ celery_app \in BOOLEAN
    /\ jobs = [id \in {} |-> NewJob]
    /\ prod = [j \in JobIds |-> "none"]
    /\ queue = {}
    /\ dups = 0
    /\ outages = 0
    /\ run = [r \in Runs |-> IdleRun]
    /\ ended = [id \in TaskIds |-> "none"]
    /\ files = [j \in JobIds |-> {}]
    /\ segments = <<>>
    /\ srt_text = None
    /\ vtt_text = None
    /\ broker = [reachable |-> TRUE, changes |-> 0]
    /\ startup = WorkerStart(TRUE, TRUE, 5)
    /\ worker_process = FreshProcess("auto", FALSE)
    /\ options = WorkerOptions
    /\ seconds_arg = None
    /\ stamp = None
    /\ backend = "dummy"
    /\ recognized = <<>>
    /\ job_options = [enable_diarization |-> TRUE]
    /\ backend_segments = <<>>
    /\ diarized = <<>>
    /\ result = <<>>
    /\ raised = None
    /\ plain_text = None
    /\ jsonl_file = <<>>

UploadUnchanged ==
    UNCHANGED <<broker, startup, worker_process, options, celery_app, jobs,
                prod, queue, dups, outages, run, ended, files, segments,
                srt_text, vtt_text, seconds_arg, stamp, backend, recognized,
                job_options, backend_segments, diarized, result, raised,
                plain_text, jsonl_file>>

\* _create_job up to the call of _persist_upload: 400 without a file name,
\* 415 for a detected type that is not audio.
ValidateUpload ==
    /\ upload.pc = "validate"
    /\ upload' =
          IF upload.filename = "" THEN Reject(upload, 400)
          ELSE IF detected_type(upload) \notin {None, ""}
                    /\ ~IsAudio(detected_type(upload))
            THEN Reject(upload, 415)
            ELSE [upload EXCEPT !.pc = "open"]
    /\ UNCHANGED destination_exists
    /\ UploadUnchanged

\* _persist_upload: destination.open("wb")
OpenDestination ==
    /\ upload.pc = "open"
    /\ upload' = [upload EXCEPT !.pc = "read"]
    /\ destination_exists' = TRUE
    /\ UploadUnchanged

\* One turn of the loop of _persist_upload that leaves the file of a body
\* that is too large, or empty, where it is.
ReadChunkKeepsFile ==
    /\ upload.pc = "read"
    /\ upload' =
          IF upload.read < upload.chunks
            THEN (IF upload.read + 1 > MaxUploadChunks
                    THEN Reject([upload EXCEPT !.read = @ + 1], 413)
                    ELSE [upload EXCEPT !.read = @ + 1])
            ELSE (IF upload.read = 0 THEN Reject(upload, 400)
                  ELSE [upload EXCEPT !.pc = "accepted"])
    /\ UNCHANGED destination_exists
    /\ UploadUnchanged

\* One turn of the loop of _persist_upload, with what follows the loop when
\* the body is at its end: a chunk is read and written, or it exceeds
\* max_bytes (413, the file is unlinked); at the end of the body an empty
\* file is unlinked (400).
ReadChunk ==
    /\ upload.pc = "read"
    /\ IF upload.read < upload.chunks
         THEN IF upload.read + 1 > MaxUploadChunks
                THEN /\ upload' = Reject([upload EXCEPT !.read = @ + 1], 413)
                     /\ destination_exists' = FALSE
                ELSE /\ upload' = [upload EXCEPT !.read = @ + 1]
                     /\ UNCHANGED destination_exists
         ELSE IF upload.read = 0
                THEN /\ upload' = Reject(upload, 400)
                     /\ destination_exists' = FALSE
                ELSE /\ upload' = [upload EXCEPT !.pc = "accepted"]
                     /\ UNCHANGED destination_exists
    /\ UploadUnchanged

UploadNext ==
    \/ ValidateUpload
    \/ OpenDestination
    \/ ReadChunk
    \/ \E j \in JobIds : CreateJob(j)
    \/ \E j \in JobIds, sent \in BOOLEAN, r \in Runs :
          enqueue_transcription(j, sent, r)

UploadSpec == UploadInit /\ [][UploadNext]_vars

\* C29: a rejected upload (415 for a declared type that is not audio, 413
\* for a body above max_upload_mb, 400 for an empty body or a missing file
\* name) has no job record, no task and no run, and no stored upload file.
C29_RejectedUploadLeavesNothing ==
    upload.pc = "rejected"
        => /\ upload.status_code \in {400, 413, 415}
           /\ DOMAIN jobs = {}
           /\ \A j \in JobIds : prod[j] = "none"
           /\ queue = {}
           /\ \A r \in Runs : run[r].pc = "idle"
           /\ ~destination_exists

\* A body above the limit was rejected after part of it had been written.
C29_Witness ==
    /\ upload.pc = "rejected"
    /\ upload.status_code = 413
    /\ upload.read = MaxUploadChunks + 1
    /\ ~destination_exists

\* The other rejections happened: no file name, a type that is not audio
\* (declared or guessed), an empty body.
C29_WitnessNoFilename == upload.pc = "rejected" /\ upload.filename = ""

C29_WitnessNotAudio ==
    /\ upload.pc = "rejected"
    /\ upload.status_code = 415
    /\ upload.content_type = ""

C29_WitnessEmptyBody ==
    /\ upload.pc = "rejected"
    /\ upload.status_code = 400
    /\ upload.filename # ""

-----------------------------------------------------------------------------
(* The order of the steps of one run *)

\* The steps of a run that reaches _mark_job_finished, in the order of
\* _run_transcription and _transcribe; post-processing is part of
\* engine.transcribe.
PipelineOrder ==
    <<"claim", "prepare", "transcribe", "write_txt", "write_jsonl",
      "write_srt", "write_vtt">>

IsPrefix(s, t) == Len(s) <= Len(t) /\ s = SubSeq(t, 1, Len(s))

ArtifactFiles == {FormatFile[Formats[i]] : i \in 1..Len(Formats)}

\* C30: the steps of a run happen in the order claim, prepare, transcribe
\* (with post-processing), the four artifact writes, finalize.  The claim
\* commits the processing status (under either of its names); a run that
\* writes a file has committed its claim before; the run that commits status
\* finished has taken every step, and all four artifact files are written.
C30_StepsInOrder ==
    [][\A r \in Runs :
          /\ IsPrefix(run'[r].steps, PipelineOrder)
          /\ (Len(run'[r].steps) = 1 /\ run[r].steps = <<>>)
                => jobs'[run'[r].job].status \in ProcessingNames
          /\ (run'[r] # run[r] /\ files' # files)
                => (run[r].steps # <<>> /\ Head(run[r].steps) = "claim")
          /\ (run[r].pc = "finish" /\ run'[r] # run[r]
                 /\ ended'[run[r].job] = "finished")
                => /\ run[r].steps = PipelineOrder
                   /\ ArtifactFiles \subseteq files[run[r].job]
                   /\ jobs'[run[r].job].status = JobStatus_finished]_vars

\* A run has taken every step and is about to commit status finished, while
\* the record still shows the claim.
C30_Witness ==
    \E r \in Runs :
        /\ run[r].pc = "finish"
        /\ run[r].steps = PipelineOrder
        /\ Status(run[r].job) \in ProcessingNames
        /\ ArtifactFiles \subseteq files[run[r].job]

-----------------------------------------------------------------------------
(* Retries *)

\* The run of thread r ends in this step with a request to retry its task.
RequestsRetry(r) ==
    /\ run[r].pc # "idle"
    /\ run'[r].pc = "idle"
    /\ ended'[run[r].job] = "retry"

\* C31: only the acquire step requests a retry of the task, for an absent
\* record or an unreachable store; a run that has committed its claim never
\* does, whatever fails afterwards, and puts no message on the queue.
C31_RetryOnlyAtAcquire ==
    [][\A r \in Runs :
          /\ RequestsRetry(r)
                => /\ run[r].pc = "acquire"
                   /\ run[r].steps = <<>>
                   /\ run[r].task
          /\ (run'[r] # run[r] /\ run[r].steps # <<>>) => queue' = queue]_vars

\* The store was unreachable at the acquire step, the task was retried, the
\* retried run claimed the job, found the input missing and failed it
\* without another retry.
C31_Witness ==
    \E j \in DOMAIN jobs :
        /\ outages = 1
        /\ ended[j] = "errored"
        /\ jobs[j].error_message = NotFoundMessage
        /\ queue = {}
        /\ \A r \in Runs : run[r].pc = "idle"


\* C32: when session.get fails at the acquire step because the store is
\* unreachable, the run ends with the error handed on: a retry of the task
\* (or, past the budget, the exception) for a queued task, the exception for
\* a synchronous run; the job record is left as it was.
C32_StoreOutageSurfaced ==
    [][\A r \in Runs :
          (run[r].pc = "acquire" /\ run'[r] # run[r] /\ outages' # outages)
              => /\ jobs' = jobs
                 /\ run'[r].pc = "idle"
                 /\ IF run[r].task /\ run[r].retries < max_retries
                      THEN /\ ended'[run[r].job] = "retry"
                           /\ Message(run[r].job, run[r].retries + 1) \in queue'
                      ELSE /\ ended'[run[r].job] = "raised"
                           /\ queue' = queue]_vars

\* A queued task met the outage: it is queued again as a retry and the
\* record is still pending.
C32_Witness ==
    \E j \in DOMAIN jobs :
        /\ outages = 1
        /\ ended[j] = "retry"
        /\ Message(j, 1) \in queue
        /\ Status(j) = JobStatus_pending

\* A synchronous run met the outage: the exception left enqueue_transcription
\* and the record is still pending.
C32_SyncWitness ==
    \E j \in DOMAIN jobs :
        /\ ~celery_app
        /\ outages = 1
        /\ ended[j] = "raised"
        /\ Status(j) = JobStatus_pending


-----------------------------------------------------------------------------
(* The guard against degenerate text *)

\* C33: when the flattened transcript (result.text) is empty or one of the
\* known placeholders, such as the stem of audio.wav the dummy backend
\* returns, plain_text is the sentinel.
C33_PlaceholderBecomesSentinel ==
    (plain_text # None
       /\ (result[1].text = "" \/ Lower(Strip(result[1].text)) \in Placeholders))
        => plain_text = Sentinel

\* What holds of it: an empty flattened transcript becomes the sentinel.
EmptyTranscriptBecomesSentinel ==
    (plain_text # None /\ result[1].text = "") => plain_text = Sentinel


-----------------------------------------------------------------------------
(* The fields of a timestamp *)

\* C34: for every seconds value >= 0 _format_timestamp returns HH:MM:SS,mmm,
\* zero padded, with the minutes and the seconds in 00..59; a fraction that
\* rounds up to the next second is carried.
C34_TimestampFieldsInRange ==
    stamp # None
        => LET fields == SplitAt(stamp, ":") IN
           /\ Len(fields) = 3
           /\ Len(SplitAt(fields[3], ",")) = 2
           /\ Len(fields[1]) = 2
           /\ Len(fields[2]) = 2
           /\ Len(SplitAt(fields[3], ",")[1]) = 2
           /\ Len(SplitAt(fields[3], ",")[2]) = 3
           /\ ParseNat(fields[2]) \in 0..59
           /\ ParseNat(SplitAt(fields[3], ",")[1]) \in 0..59

\* What holds of it: the shape, and the range of the minutes.
TimestampShape ==
    stamp # None
        => LET fields == SplitAt(stamp, ":") IN
           /\ Len(fields) = 3
           /\ Len(SplitAt(fields[3], ",")) = 2
           /\ Len(fields[1]) = 2
           /\ Len(fields[2]) = 2
           /\ Len(SplitAt(fields[3], ",")[1]) = 2
           /\ Len(SplitAt(fields[3], ",")[2]) = 3
           /\ ParseNat(fields[2]) \in 0..59
           /\ ParseNat(SplitAt(fields[3], ",")[1]) \in 0..60


-----------------------------------------------------------------------------
(* The segments of the job record *)

\* inline_job_result(job_id, session), for a finished job: the text and the
\* segments of the response.
inline_job_result(job_id) ==
    [job_id |-> job_id,
     status |-> jobs[job_id].status,
     text |-> jobs[job_id].text,
     segments |-> jobs[job_id].segments]

\* C35: the run that finalizes a job replaces the segments of the record by
\* the segments it produced, which are what the inline result of the
\* finished job reads.
C35_SegmentsReplacedAtFinalization ==
    [][\A r \in Runs :
          (run[r].pc = "finish" /\ run'[r] # run[r]
             /\ ended'[run[r].job] = "finished")
              => jobs'[run[r].job].segments = run[r].segs]_vars

\* What holds of it: nothing ever writes the segments of a record, and the
\* inline result of a finished job has none.
RecordSegmentsStayEmpty ==
    \A j \in DOMAIN jobs :
        /\ jobs[j].segments = <<>>
        /\ Status(j) = JobStatus_finished
              => inline_job_result(j).segments = <<>>

C37_DialectTextIsSeparate ==
    result # <<>> =>
      LET unmapped == transcription_result(diarized[1],
                          [options EXCEPT !.enable_dialect_map = FALSE])
      IN  /\ result[1].text = unmapped.text
          /\ Len(result[1].segments) = Len(unmapped.segments)
          /\ \A i \in 1..Len(result[1].segments) :
                result[1].segments[i].text = unmapped.segments[i].text
          /\ unmapped.dialect_mapped_text = None
          /\ (result[1].dialect_mapped_text # None) <=> options.enable_dialect_map

\* Dialect mapping was on and replaced a dialect word: the dialect text holds
\* the standard word where the transcript keeps the dialect word.
C37_Witness ==
    /\ result # <<>>
    /\ options.enable_dialect_map
    /\ het \in {Words(result[1].text)[k] : k \in 1..Len(Words(result[1].text))}
    /\ tham \in {Words(result[1].dialect_mapped_text)[k] :
                    k \in 1..Len(Words(result[1].dialect_mapped_text))}
    /\ het \notin {Words(result[1].dialect_mapped_text)[k] :
                      k \in 1..Len(Words(result[1].dialect_mapped_text))}

\* C38: a record the producer has committed and not yet handed on is pending,
\* and every task that is queued, and every run that is in flight, names a
\* job whose record is in the store.
C38_CommittedBeforeEnqueued ==
    /\ \A j \in JobIds :
          /\ prod[j] # "none" => j \in DOMAIN jobs
          /\ prod[j] = "committed" => jobs[j].status = JobStatus_pending
    /\ \A m \in queue : m.id \in DOMAIN jobs
    /\ \A r \in Runs : run[r].pc # "idle" => run[r].job \in DOMAIN jobs

\* A task is queued for a committed, still pending record while no run has
\* started.
C38_Witness ==
    \E m \in queue :
        /\ m.id \in DOMAIN jobs
        /\ prod[m.id] = "queued"
        /\ jobs[m.id].status = JobStatus_pending
        /\ \A r \in Runs : run[r].pc = "idle"

\* A run is in flight for a committed record.
C38_InFlightWitness ==
    \E r \in Runs :
        /\ run[r].pc \in Claimed
        /\ run[r].task
        /\ run[r].job \in DOMAIN jobs

-----------------------------------------------------------------------------
(* get_engine: the engine singleton of one process, over the jobs it runs *)

\* The jobs one process runs.
MaxJobs == 4

ModelSizes == {"small", "medium"}

\* load_engine() as call number n of the process: the engine object it
\* returns, or raised when the configured faster-whisper cannot be imported.
load_engine(p, n) ==
    LET backend_name == p.asr_backend
        wanted == backend_name \in {"auto", "faster-whisper", "faster_whisper"}
    IN  IF wanted /\ ~p.installed /\ backend_name # "auto"
          THEN [raised |-> TRUE, engine |-> <<>>]
          ELSE [raised |-> FALSE,
                engine |-> <<[id |-> n,
                              backend |-> IF wanted /\ p.installed
                                            THEN "faster_whisper" ELSE "dummy",
                              _models |-> {}]>>]

\* get_engine that builds an engine for every job.
get_engine_per_job(p) ==
    LET r == load_engine(p, p.load_engine_calls + 1)
    IN  IF r.raised
          THEN [p EXCEPT !.load_engine_calls = @ + 1,
                         !.returned = Append(@, 0)]
          ELSE [p EXCEPT !._engine = r.engine,
                         !.load_engine_calls = @ + 1,
                         !.loaded = @ + 1,
                         !.returned = Append(@, r.engine[1].id),
                         !.pc = "transcribe"]

\* get_engine(): load_engine is called while _engine is None; what the job
\* is given is recorded in returned, 0 for an exception.
get_engine(p) ==
    IF p._engine = <<>>
      THEN LET r == load_engine(p, p.load_engine_calls + 1)
           IN  IF r.raised
                 THEN [p EXCEPT !.load_engine_calls = @ + 1,
                                !.returned = Append(@, 0)]
                 ELSE [p EXCEPT !._engine = r.engine,
                                !.load_engine_calls = @ + 1,
                                !.loaded = @ + 1,
                                !.returned = Append(@, r.engine[1].id),
                                !.pc = "transcribe"]
      ELSE [p EXCEPT !.returned = Append(@, p._engine[1].id),
                     !.pc = "transcribe"]

ProcessInit ==
    /\ worker_process \in
          {FreshProcess(b, i) : b \in {"auto", "dummy", "faster-whisper"},
                                i \in BOOLEAN}
    /\ backend = "dummy"
    /\ recognized = <<>>
    /\ options = WorkerOptions
    /\ job_options = [enable_diarization |-> TRUE]
    /\ backend_segments = <<>>
    /\ diarized = <<>>
    /\ result = <<>>
    /\ raised = None
    /\ plain_text = None
    /\ jsonl_file = <<>>
    /\ seconds_arg = None
    /\ stamp = None
    /\ segments = <<>>
    /\ srt_text = None
    /\ vtt_text = None
    /\ broker = [reachable |-> TRUE, changes |-> 0]
    /\ startup = WorkerStart(TRUE, TRUE, 5)
    /\ destination_exists = TRUE
    /\ upload = AcceptedUpload
    /\ PipelineAtRest

ProcessUnchanged ==
    UNCHANGED <<broker, startup, options, celery_app, jobs, prod, queue, dups,
                outages, run, ended, files, segments, srt_text, vtt_text,
                seconds_arg, stamp, backend_segments, result, plain_text,
                jsonl_file, backend, recognized, job_options, diarized,
                raised, upload, destination_exists>>

\* _transcribe raises FileNotFoundError for a missing input before it asks
\* for the engine; the process goes on with the next job.
InputMissing ==
    /\ worker_process.pc = "idle"
    /\ worker_process.jobs < MaxJobs
    /\ worker_process' = [worker_process EXCEPT !.jobs = @ + 1]
    /\ ProcessUnchanged

\* engine = get_engine() of the next job of the process
GetEngine ==
    /\ worker_process.pc = "idle"
    /\ worker_process.jobs < MaxJobs
    /\ worker_process' =
          get_engine([worker_process EXCEPT !.jobs = @ + 1])
    /\ ProcessUnchanged

\* engine.transcribe(prepared_audio, options): the faster-whisper backend
\* takes the model of the job's size from _models and builds it when absent.
RunEngine(size) ==
    /\ worker_process.pc = "transcribe"
    /\ LET engine == worker_process._engine[1]
       IN  worker_process' =
              IF engine.backend = "faster_whisper" /\ size \notin engine._models
                THEN [worker_process EXCEPT
                         !._engine = <<[engine EXCEPT !._models = @ \cup {size}]>>,
                         !.model_loads = Append(@, size),
                         !.pc = "idle"]
                ELSE [worker_process EXCEPT !.pc = "idle"]
    /\ ProcessUnchanged

ProcessNext ==
    \/ InputMissing
    \/ GetEngine
    \/ \E size \in ModelSizes : RunEngine(size)

ProcessSpec == ProcessInit /\ [][ProcessNext]_vars

-----------------------------------------------------------------------------
(* run_worker.main: the start of the worker against a broker that comes and
   goes *)

\* How often the broker changes between reachable and unreachable.
MaxBrokerChanges == 3

\* The failed attempts that are counted; later ones leave the count.
MaxFailed == 3

\* Values of CELERY_BROKER_RETRY_DELAY, in seconds; 5 is the default.
RetryDelays == {1, 5}

StartupInit ==
    /\ startup \in {WorkerStart(u, c, d) :
                       u \in BOOLEAN, c \in BOOLEAN, d \in RetryDelays}
    /\ broker \in [reachable : BOOLEAN, changes : {0}]
    /\ worker_process = FreshProcess("auto", FALSE)
    /\ backend = "dummy"
    /\ recognized = <<>>
    /\ options = WorkerOptions
    /\ job_options = [enable_diarization |-> TRUE]
    /\ backend_segments = <<>>
    /\ diarized = <<>>
    /\ result = <<>>
    /\ raised = None
    /\ plain_text = None
    /\ jsonl_file = <<>>
    /\ seconds_arg = None
    /\ stamp = None
    /\ segments = <<>>
    /\ srt_text = None
    /\ vtt_text = None
    /\ destination_exists = TRUE
    /\ upload = AcceptedUpload
    /\ PipelineAtRest

StartupUnchanged ==
    UNCHANGED <<worker_process, options, celery_app, jobs, prod, queue, dups,
                outages, run, ended, files, segments, srt_text, vtt_text,
                seconds_arg, stamp, backend_segments, result, plain_text,
                jsonl_file, backend, recognized, job_options, diarized,
                raised, upload, destination_exists>>

\* The broker starts or stops accepting connections.
BrokerChanges ==
    /\ broker.changes < MaxBrokerChanges
    /\ broker' = [reachable |-> ~broker.reachable,
                  changes |-> broker.changes + 1]
    /\ startup' = startup
    /\ StartupUnchanged

\* main up to _ensure_broker_connection: without CELERY_BROKER_URL, without
\* celery or without celery_app it calls _sleep_forever and stays there.
Main ==
    /\ startup.pc = "main"
    /\ startup' = [startup EXCEPT !.pc =
                      IF startup.broker_url /\ startup.celery
                        THEN "connect" ELSE "sleep_forever"]
    /\ broker' = broker
    /\ StartupUnchanged

\* One attempt that ends the start of the worker when it fails.
EnsureConnectionOrExit ==
    /\ startup.pc = "connect"
    /\ startup' =
          IF broker.reachable
            THEN [startup EXCEPT !.pc = "worker_main", !.connected = TRUE]
            ELSE [startup EXCEPT !.pc = "exited",
                                 !.failed = Min(@ + 1, MaxFailed)]
    /\ broker' = broker
    /\ StartupUnchanged

\* One turn of the loop of _ensure_broker_connection up to the return or the
\* except clause: ensure_connection(max_retries=0) succeeds when the broker
\* is reachable and raises otherwise.
EnsureConnection ==
    /\ startup.pc = "connect"
    /\ startup' =
          IF broker.reachable
            THEN [startup EXCEPT !.pc = "worker_main", !.connected = TRUE]
            ELSE [startup EXCEPT !.pc = "sleep",
                                 !.failed = Min(@ + 1, MaxFailed)]
    /\ broker' = broker
    /\ StartupUnchanged

\* time.sleep(delay) in the except clause, then the next turn of the loop
Sleep ==
    /\ startup.pc = "sleep"
    /\ startup' = [startup EXCEPT !.pc = "connect",
                                  !.slept = startup.retry_delay]
    /\ broker' = broker
    /\ StartupUnchanged

\* celery_app.worker_main(argv) ends with SystemExit: sys.exit(code)
WorkerMainExits ==
    /\ startup.pc = "worker_main"
    /\ startup' = [startup EXCEPT !.pc = "exited"]
    /\ broker' = broker
    /\ StartupUnchanged

StartupNext ==
    \/ BrokerChanges
    \/ Main
    \/ EnsureConnection
    \/ Sleep
    \/ WorkerMainExits

\* The process keeps running: main, an attempt and a sleep come to their end.
StartupSpec ==
    /\ StartupInit
    /\ [][StartupNext]_vars
    /\ WF_vars(Main)
    /\ WF_vars(EnsureConnection)
    /\ WF_vars(Sleep)

\* A step of the starting worker, as opposed to one of the broker.
StartupStep == startup' # startup

\* C40: a failed connection attempt is followed by a sleep of the configured
\* delay and by another attempt, never by the end of the process; worker_main
\* is entered only by an attempt that succeeded; and with a broker that is
\* reachable from some time on, a configured worker reaches worker_main.
C40_StartupToleratesBrokerOutage ==
    /\ [][/\ (StartupStep /\ startup.pc = "connect" /\ ~broker.reachable)
               => startup'.pc = "sleep"
          /\ (StartupStep /\ startup.pc = "sleep")
               => startup'.pc = "connect"
                    /\ startup'.slept = startup.retry_delay
          /\ (StartupStep /\ startup'.pc = "worker_main")
               => startup.pc = "connect" /\ broker.reachable
          /\ (StartupStep /\ startup'.pc = "exited")
               => startup.pc = "worker_main"]_vars
    /\ [](startup.pc = "worker_main" => startup.connected)
    /\ (startup.broker_url /\ startup.celery /\ <>[]broker.reachable)
          => <>(startup.pc = "worker_main")

\* The worker consumes tasks after three failed attempts, each followed by a
\* sleep of the configured delay.
C40_Witness ==
    /\ startup.pc = "worker_main"
    /\ startup.failed = MaxFailed
    /\ startup.connected
    /\ startup.slept = startup.retry_delay

=============================================================================
